---- MODULE Spec2Model ----
(***************************************************************************)
(* A model of the tile scheduler (common/raytracer.rs render, main.rs      *)
(* collector loop) and of the bounding-volume hierarchy (scene/bvh.rs,     *)
(* aabb.rs, scene/hittable_list.rs, object/sphere.rs) of the path tracer.  *)
(***************************************************************************)
EXTENDS Integers, Sequences, FiniteSets, Bags, TLC

(***************************************************************************)
(* Bounds of the model.                                                    *)
(***************************************************************************)
MaxWidth == 17
MaxHeight == 17
MaxThreads == 2

(***************************************************************************)
(* Program constants.                                                      *)
(***************************************************************************)
TILE_SIZE == 16

VARIABLES
    width, height, nthreads, sample_seed,   \* arguments of the run
    current_pos,    \* the shared cursor, Mutex<(usize, usize)>
    mutex,          \* holder of the cursor's mutex, 0 when free
    pc,             \* position of every worker in render
    previous_coords,\* render's local copy of the cursor, per worker
    done,           \* render's local flag, per worker
    total_pixels,   \* render's local pixel count, per worker
    chan,           \* tiles in flight in the mpsc channel
    senders,        \* number of Sender<Tile> clones alive
    image,          \* main's framebuffer, image[row][column]
    pixels_so_far,  \* main's progress counter
    collector,      \* position of main: "recv" or "done"
    claims,         \* history: tile origins taken from the cursor, in lock order
    sent,           \* history: bag of the origins of the tiles sent
    received,       \* history: bag of the origins of the tiles received
    scene,          \* the world: the list of primitives given to BvhNode::new
    world_rng,      \* main's world_rng, the source of the split axes
    bvh,            \* the result of BvhNode::new, NotBuilt before the call
    query,          \* the last intersection query and its answers
    rcolor,         \* one call of ray_color: its frames, counters and result
    aabb,           \* boxes, ray and interval given to the Aabb operations
    camera,         \* a Camera and the ray get_ray returned
    filter_writer,  \* a FilterWriter, its input and the bytes it passed on
    idat_writer,    \* an IdatWriter and the bytes it passed on
    tile_loop,      \* one worker of render seen cell by cell: its tile, loops and rng
    build           \* BvhNode::new seen call by call: the stack of its calls

rvars == <<width, height, nthreads, sample_seed, current_pos, mutex, pc,
           previous_coords, done, total_pixels, chan, senders, image,
           pixels_so_far, collector, claims, sent, received>>

bvars == <<scene, world_rng, bvh, query>>

xvars == <<rcolor, aabb, camera, filter_writer, idat_writer, tile_loop, build>>

vars == <<rvars, bvars, xvars>>

Workers == 1..MaxThreads

NotBuilt == [state |-> "none"]
NoQuery == [asked |-> FALSE]

\* value of a part of the program that a run does not exercise
Unused == [state |-> "unused"]

\* value of the locals (x, y) and previous_coords while they are out of scope
NoCoords == <<0, 0>>

Min(a, b) == IF a < b THEN a ELSE b
Max(a, b) == IF a > b THEN a ELSE b

(***************************************************************************)
(* u64 exclusive or, bit by bit.                                           *)
(***************************************************************************)
RECURSIVE BitXor(_, _)
BitXor(a, b) ==
    IF a = 0 THEN b
    ELSE IF b = 0 THEN a
    ELSE (((a % 2) + (b % 2)) % 2) + 2 * BitXor(a \div 2, b \div 2)

(***************************************************************************)
(* The random stream of a tile.  seed_from_u64 fixes the whole stream; the *)
(* n-th block of draws is a function of the seed and of n.                 *)
(***************************************************************************)
ColorMod == 5

\* mutant: the coordinates are added to the seed
TileSeedSum(seed, x, y) == seed + x + y

TileSeed(seed, x, y) == BitXor(BitXor(seed, x), y)

RngDraw(s, n) == (7 * s + 3 * n + 1) % 11

\* The color the sampling loop accumulates for pixel (i, j) from its draws.
PixelColor(draw, i, j) == 1 + ((draw + 2 * i + 3 * j) % ColorMod)

ColorZero == 0

(***************************************************************************)
(* Tile::new and the pixel loops of render: rows j from y+15 down to y,    *)
(* columns i from x up, cells outside the image skipped.  The k-th pixel   *)
(* computed (k from 0) uses the k-th block of draws of the tile's stream.  *)
(***************************************************************************)
TileCols(x, w) == IF x >= w THEN 0 ELSE Min(TILE_SIZE, w - x)
TileRows(y, h) == IF y >= h THEN 0 ELSE Min(TILE_SIZE, h - y)

PixelRank(x, y, i, j, w, h) ==
    ((y + TileRows(y, h) - 1) - j) * TileCols(x, w) + (i - x)

\* the value the loop body stores for pixel (i, j) of the tile at (x, y)
TilePixel(seed, x, y, i, j, w, h) ==
    PixelColor(RngDraw(TileSeed(seed, x, y), PixelRank(x, y, i, j, w, h)), i, j)

RenderTile(seed, x, y, w, h) ==
    [x |-> x, y |-> y,
     pixels |->
        [r \in 0..(TILE_SIZE - 1) |->
            [c \in 0..(TILE_SIZE - 1) |->
                IF y + r >= h \/ x + c >= w
                THEN ColorZero
                ELSE TilePixel(seed, x, y, x + c, y + r, w, h)]]]

(***************************************************************************)
(* The critical section of render (lines 81-98): the new cursor, the done  *)
(* flag, and whether render returns from inside the critical section.      *)
(***************************************************************************)
\* mutant: the early return taken when the wrapped cursor column is 0
AdvanceCursorEarlyReturn(prev, w, h) ==
    LET g0 == prev[1] + TILE_SIZE
        wrap == g0 >= w
        a0 == IF wrap THEN 0 ELSE g0
        a1 == IF wrap THEN prev[2] + TILE_SIZE ELSE prev[2]
    IN  IF a1 >= h
        THEN IF a0 = 0
             THEN [pos |-> <<0, a1>>, done |-> TRUE, ret |-> TRUE]
             ELSE [pos |-> <<a0, a1>>, done |-> TRUE, ret |-> FALSE]
        ELSE [pos |-> <<a0, a1>>, done |-> FALSE, ret |-> FALSE]

\* mutant: the row wraps only once the cursor is past the width
AdvanceCursorWrapLate(prev, w, h) ==
    LET g0 == prev[1] + TILE_SIZE
        wrap == g0 > w
        a0 == IF wrap THEN 0 ELSE g0
        a1 == IF wrap THEN prev[2] + TILE_SIZE ELSE prev[2]
    IN  IF a1 >= h
        THEN IF a0 = TILE_SIZE
             THEN [pos |-> <<0, a1>>, done |-> TRUE, ret |-> TRUE]
             ELSE [pos |-> <<a0, a1>>, done |-> TRUE, ret |-> FALSE]
        ELSE [pos |-> <<a0, a1>>, done |-> FALSE, ret |-> FALSE]

AdvanceCursor(prev, w, h) ==
    LET g0 == prev[1] + TILE_SIZE
        wrap == g0 >= w
        a0 == IF wrap THEN 0 ELSE g0
        a1 == IF wrap THEN prev[2] + TILE_SIZE ELSE prev[2]
    IN  IF a1 >= h
        THEN IF a0 = TILE_SIZE
             THEN [pos |-> <<0, a1>>, done |-> TRUE, ret |-> TRUE]
             ELSE [pos |-> <<a0, a1>>, done |-> TRUE, ret |-> FALSE]
        ELSE [pos |-> <<a0, a1>>, done |-> FALSE, ret |-> FALSE]

\* mutant: recv fails as soon as no sender is left, tiles still queued
DisconnectedNoSenders(ch, snd) == snd = 0

\* Receiver::recv fails only when the queue is empty and no sender is left.
Disconnected(ch, snd) == ch = <<>> /\ snd = 0

\* mutant: the cursor is not protected, lock never waits
CanLockAlways(m) == TRUE

\* Mutex::lock succeeds only when nobody holds the mutex.
CanLock(m) == m = 0

(***************************************************************************)
(* The collector's placement of one tile (main.rs lines 192-202).          *)
(***************************************************************************)
\* mutant: rows are stored top-down, image[j] instead of image[h - 1 - j]
PlaceTileNoFlip(img, tile, w, h) ==
    LET cols == Min(TILE_SIZE, w - tile.x) IN
    [row \in 0..(h - 1) |->
        [col \in 0..(w - 1) |->
            IF /\ row >= tile.y /\ row < tile.y + TILE_SIZE
               /\ col >= tile.x /\ col < tile.x + cols
            THEN tile.pixels[row - tile.y][col - tile.x]
            ELSE img[row][col]]]

\* mutant: the tile's y is ignored, every tile lands in the first tile row
PlaceTileRowZero(img, tile, w, h) ==
    LET cols == Min(TILE_SIZE, w - tile.x)
        rows == TileRows(tile.y, h)
    IN
    [row \in 0..(h - 1) |->
        [col \in 0..(w - 1) |->
            LET i == h - 1 - row IN
            IF /\ i < rows
               /\ col >= tile.x /\ col < tile.x + cols
            THEN tile.pixels[i][col - tile.x]
            ELSE img[row][col]]]

PlaceTile(img, tile, w, h) ==
    LET cols == Min(TILE_SIZE, w - tile.x) IN
    [row \in 0..(h - 1) |->
        [col \in 0..(w - 1) |->
            LET i == h - 1 - row IN
            IF /\ i >= tile.y /\ i < tile.y + TILE_SIZE
               /\ col >= tile.x /\ col < tile.x + cols
            THEN tile.pixels[i - tile.y][col - tile.x]
            ELSE img[row][col]]]

\* mutant: every row of a tile counts for a full tile width
PlacedPixelsUnclipped(tile, w, h) == TileRows(tile.y, h) * TILE_SIZE

PlacedPixels(tile, w, h) ==
    TileRows(tile.y, h) * Min(TILE_SIZE, w - tile.x)

(***************************************************************************)
(* Initial state: main has spawned nthreads workers and dropped its own    *)
(* sender; the cursor is (0, 0) and the framebuffer is all zero.           *)
(***************************************************************************)
\* the sample seed of the run (args.sample_seed is any u64)
Seeds == {21}

ImageSizes == (1..MaxWidth) \X (1..MaxHeight)

Init ==
    /\ \E size \in ImageSizes : width = size[1] /\ height = size[2]
    /\ nthreads \in 1..MaxThreads
    /\ sample_seed \in Seeds
    /\ current_pos = <<0, 0>>
    /\ mutex = 0
    /\ pc = [t \in Workers |-> IF t <= nthreads THEN "lock" ELSE "absent"]
    /\ previous_coords = [t \in Workers |-> NoCoords]
    /\ done = [t \in Workers |-> FALSE]
    /\ total_pixels = [t \in Workers |-> 0]
    /\ chan = <<>>
    /\ senders = nthreads
    /\ image = [row \in 0..(height - 1) |-> [col \in 0..(width - 1) |-> ColorZero]]
    /\ pixels_so_far = 0
    /\ collector = "recv"
    /\ claims = <<>>
    /\ sent = EmptyBag
    /\ received = EmptyBag
    /\ scene = <<>>
    /\ world_rng = 0
    /\ bvh = NotBuilt
    /\ query = NoQuery
    /\ rcolor = Unused /\ aabb = Unused /\ camera = Unused
    /\ filter_writer = Unused /\ idat_writer = Unused
    /\ tile_loop = Unused /\ build = Unused

\* current_pos.lock().unwrap(); let previous_coords = *guard
Lock(t) ==
    /\ pc[t] = "lock"
    /\ CanLock(mutex)
    /\ mutex' = t
    /\ previous_coords' = [previous_coords EXCEPT ![t] = current_pos]
    /\ pc' = [pc EXCEPT ![t] = "crit"]
    /\ UNCHANGED <<width, height, nthreads, sample_seed, current_pos, done,
                   total_pixels, chan, senders, image, pixels_so_far,
                   collector, claims, sent, received>>
    /\ UNCHANGED <<bvars, xvars>>

\* the rest of the critical section; the guard is dropped at its end
Advance(t) ==
    /\ pc[t] = "crit"
    /\ LET a == AdvanceCursor(previous_coords[t], width, height) IN
        /\ current_pos' = a.pos
        /\ done' = [done EXCEPT ![t] = a.done]
        /\ IF a.ret
           THEN /\ pc' = [pc EXCEPT ![t] = "returned"]
                /\ senders' = senders - 1
                /\ claims' = claims
                /\ previous_coords' = [previous_coords EXCEPT ![t] = NoCoords]
           ELSE /\ pc' = [pc EXCEPT ![t] = "render"]
                /\ senders' = senders
                /\ claims' = Append(claims, previous_coords[t])
                /\ previous_coords' = previous_coords
    /\ mutex' = 0
    /\ UNCHANGED <<width, height, nthreads, sample_seed, total_pixels, chan,
                   image, pixels_so_far, collector, sent, received>>
    /\ UNCHANGED <<bvars, xvars>>

\* mutant: every worker is started with a seed of its own
WorkerSeedPerThread(seed, t) == seed + t

\* main.rs 171-173: every worker is started with args.sample_seed
WorkerSeed(seed, t) == seed

\* mutant: the channel holds one tile, as mpsc::sync_channel(1) would
SendBlocksWhenFull(ch) == Len(ch) >= 1

\* main.rs 165: mpsc::channel() is unbounded, a send never waits
SendBlocks(ch) == FALSE

\* render the claimed tile, send it, test the loop condition
RenderSend(t) ==
    /\ pc[t] = "render"
    /\ ~SendBlocks(chan)
    /\ LET x == previous_coords[t][1]
           y == previous_coords[t][2]
           tile == RenderTile(WorkerSeed(sample_seed, t), x, y, width, height)
       IN  /\ chan' = Append(chan, tile)
           /\ sent' = sent (+) SetToBag({<<x, y>>})
           /\ total_pixels' = [total_pixels EXCEPT
                                 ![t] = @ + TileRows(y, height) * TileCols(x, width)]
    /\ IF done[t]
       THEN /\ pc' = [pc EXCEPT ![t] = "returned"]
            /\ senders' = senders - 1
       ELSE /\ pc' = [pc EXCEPT ![t] = "lock"]
            /\ senders' = senders
    /\ previous_coords' = [previous_coords EXCEPT ![t] = NoCoords]
    /\ UNCHANGED <<width, height, nthreads, sample_seed, current_pos, mutex,
                   done, image, pixels_so_far, collector, claims, received>>
    /\ UNCHANGED <<bvars, xvars>>

\* one iteration of `while let Ok(tile) = recv.recv()`
Recv ==
    /\ collector = "recv"
    /\ chan # <<>>
    /\ image' = PlaceTile(image, Head(chan), width, height)
    /\ pixels_so_far' = pixels_so_far + PlacedPixels(Head(chan), width, height)
    /\ chan' = Tail(chan)
    /\ received' = received (+) SetToBag({<<Head(chan).x, Head(chan).y>>})
    /\ UNCHANGED <<width, height, nthreads, sample_seed, current_pos, mutex,
                   pc, previous_coords, done, total_pixels, senders,
                   collector, claims, sent>>
    /\ UNCHANGED <<bvars, xvars>>

\* recv() returns Err: the channel is empty and every sender is dropped
RecvClosed ==
    /\ collector = "recv"
    /\ Disconnected(chan, senders)
    /\ collector' = "done"
    /\ UNCHANGED <<width, height, nthreads, sample_seed, current_pos, mutex,
                   pc, previous_coords, done, total_pixels, chan, senders,
                   image, pixels_so_far, claims, sent, received>>
    /\ UNCHANGED <<bvars, xvars>>

Next ==
    \/ \E t \in Workers : Lock(t)
    \/ \E t \in Workers : Advance(t)
    \/ \E t \in Workers : RenderSend(t)
    \/ Recv
    \/ RecvClosed

Spec == Init /\ [][Next]_vars

(***************************************************************************)
(* Every worker is an OS thread that keeps running, and so is main.        *)
(***************************************************************************)
FairSpec ==
    /\ Spec
    /\ \A t \in Workers :
         WF_vars(Lock(t)) /\ WF_vars(Advance(t)) /\ WF_vars(RenderSend(t))
    /\ WF_vars(Recv)
    /\ WF_vars(RecvClosed)

(***************************************************************************)
(* f64 values.  Finite values are integers; the two infinities and NaN are *)
(* the values the slab test can produce when a direction component is 0.   *)
(***************************************************************************)
PosInf == 1000
NegInf == -1000
NaN == 7777

IsInf(a) == a = PosInf \/ a = NegInf
Sign(a) == IF a > 0 THEN 1 ELSE IF a < 0 THEN -1 ELSE 0

\* comparisons with NaN are false
FLt(a, b) == a # NaN /\ b # NaN /\ a < b

\* mutant: an interval shrunk to a single point still counts as hit
FLeStrict(a, b) == a # NaN /\ b # NaN /\ a < b

FLe(a, b) == a # NaN /\ b # NaN /\ a <= b

\* a * b: 0 * inf is NaN
FMul(a, b) ==
    IF a = NaN \/ b = NaN THEN NaN
    ELSE IF IsInf(a) \/ IsInf(b)
         THEN IF a = 0 \/ b = 0 THEN NaN
              ELSE IF Sign(a) * Sign(b) > 0 THEN PosInf ELSE NegInf
         ELSE a * b

\* 1.0 / d for a direction component d in {-1, 0, 1}
FInv(d) == IF d = 0 THEN PosInf ELSE d

Dot(u, v) == u[1] * v[1] + u[2] * v[2] + u[3] * v[3]
LengthSquared(u) == Dot(u, u)
VSub(u, v) == <<u[1] - v[1], u[2] - v[2], u[3] - v[3]>>
VAdd(u, v) == <<u[1] + v[1], u[2] + v[2], u[3] + v[3]>>
VScale(k, u) == <<k * u[1], k * u[2], k * u[3]>>
Abs(a) == IF a < 0 THEN -a ELSE a

\* f64::sqrt, on the squares
Sqrt(n) == CHOOSE q \in 0..n : q * q = n

\* Ray::at
RayAt(r, t) == VAdd(r.orig, VScale(t, r.dir))

(***************************************************************************)
(* Aabb (aabb.rs).  Option<Aabb> is [some |-> FALSE] or a box with some.   *)
(***************************************************************************)
NoneBox == [some |-> FALSE]
SomeBox(lo, hi) == [some |-> TRUE, min |-> lo, max |-> hi]

\* the loop of Aabb::hit from axis a on, with the interval so far: the
\* answer, and the locals t_min and t_max at the return
RECURSIVE AabbHitFrom(_, _, _, _, _)
AabbHitFrom(box, r, a, t_min, t_max) ==
    IF a > 3 THEN [hit |-> TRUE, t_min |-> t_min, t_max |-> t_max]
    ELSE
      LET inv_d == FInv(r.dir[a])
          m0 == FMul(box.min[a] - r.orig[a], inv_d)
          m1 == FMul(box.max[a] - r.orig[a], inv_d)
          t0 == IF FLt(inv_d, 0) THEN m1 ELSE m0
          t1 == IF FLt(inv_d, 0) THEN m0 ELSE m1
          lo == IF FLt(t_min, t0) THEN t0 ELSE t_min
          hi == IF FLt(t1, t_max) THEN t1 ELSE t_max
      IN  IF FLe(hi, lo) THEN [hit |-> FALSE, t_min |-> lo, t_max |-> hi]
          ELSE AabbHitFrom(box, r, a + 1, lo, hi)

AabbHit(box, r, t_min, t_max) == AabbHitFrom(box, r, 1, t_min, t_max).hit

\* mutant: the larger corner is the larger of the two smaller corners
SurroundingBoxMaxOfMins(box0, box1) ==
    SomeBox(<<Min(box0.min[1], box1.min[1]),
              Min(box0.min[2], box1.min[2]),
              Min(box0.min[3], box1.min[3])>>,
            <<Max(box0.min[1], box1.min[1]),
              Max(box0.min[2], box1.min[2]),
              Max(box0.min[3], box1.min[3])>>)

\* mutant: the larger corner is taken from the first box alone
SurroundingBoxFirstMax(box0, box1) ==
    SomeBox(<<Min(box0.min[1], box1.min[1]),
              Min(box0.min[2], box1.min[2]),
              Min(box0.min[3], box1.min[3])>>,
            box0.max)

SurroundingBox(box0, box1) ==
    SomeBox(<<Min(box0.min[1], box1.min[1]),
              Min(box0.min[2], box1.min[2]),
              Min(box0.min[3], box1.min[3])>>,
            <<Max(box0.max[1], box1.max[1]),
              Max(box0.max[2], box1.max[2]),
              Max(box0.max[3], box1.max[3])>>)

(***************************************************************************)
(* Primitives: Sphere, MovingSphere and the empty HittableList, the one    *)
(* Hittable that reports no bounding box.                                  *)
(***************************************************************************)
NoHit == [some |-> FALSE]

\* Sphere::hit_implementation; obj stands for the record's mat_ptr
SphereHit(center, radius, obj, r, t_min, t_max) ==
    LET oc == VSub(r.orig, center)
        a == LengthSquared(r.dir)
        half_b == Dot(oc, r.dir)
        c == LengthSquared(oc) - radius * radius
        discriminant == half_b * half_b - a * c
    IN  IF discriminant < 0 THEN NoHit
        ELSE
          LET sqrtd == Sqrt(discriminant)
              root1 == (-half_b - sqrtd) \div a
              root2 == (-half_b + sqrtd) \div a
              out1 == FLt(root1, t_min) \/ FLt(t_max, root1)
              out2 == FLt(root2, t_min) \/ FLt(t_max, root2)
              root == IF out1 THEN root2 ELSE root1
          IN  IF out1 /\ out2 THEN NoHit
              ELSE [some |-> TRUE, t |-> root, p |-> RayAt(r, root), obj |-> obj]

\* MovingSphere::center
MovingCenter(prim, time) ==
    VAdd(prim.center0,
         VScale((time - prim.time0) \div (prim.time1 - prim.time0),
                VSub(prim.center1, prim.center0)))

SphereBox(center, radius) ==
    LET rad == Abs(radius) IN
    SomeBox(VSub(center, <<rad, rad, rad>>), VAdd(center, <<rad, rad, rad>>))

\* Hittable::bounding_box of a primitive
PrimBox(prim, time0, time1) ==
    IF prim.kind = "sphere" THEN SphereBox(prim.center, prim.radius)
    ELSE IF prim.kind = "moving"
    THEN SurroundingBox(SphereBox(MovingCenter(prim, time0), prim.radius),
                        SphereBox(MovingCenter(prim, time1), prim.radius))
    ELSE NoneBox

\* Hittable::hit of a primitive
PrimHit(prim, obj, r, t_min, t_max) ==
    IF prim.kind = "sphere"
    THEN SphereHit(prim.center, prim.radius, obj, r, t_min, t_max)
    ELSE IF prim.kind = "moving"
    THEN SphereHit(MovingCenter(prim, r.tm), prim.radius, obj, r, t_min, t_max)
    ELSE NoHit

\* HittableList::hit: the loop over objects k.. with the closest hit so far
RECURSIVE ListHitFrom(_, _, _, _, _, _)
ListHitFrom(prims, k, r, t_min, closest_so_far, temp_rec) ==
    IF k > Len(prims) THEN temp_rec
    ELSE LET rec == PrimHit(prims[k], k, r, t_min, closest_so_far) IN
         IF rec.some
         THEN ListHitFrom(prims, k + 1, r, t_min, rec.t, rec)
         ELSE ListHitFrom(prims, k + 1, r, t_min, closest_so_far, temp_rec)

ListHit(prims, r, t_min, t_max) == ListHitFrom(prims, 1, r, t_min, t_max, NoHit)

(***************************************************************************)
(* BvhNode (scene/bvh.rs).  A child is an Arc: either one of the objects   *)
(* of the world, named by its index, or a freshly built node.              *)
(***************************************************************************)
ObjChild(id) == [kind |-> "obj", id |-> id]
NodeChild(left, right, bbox) ==
    [kind |-> "node", left |-> left, right |-> right, bbox |-> bbox]

\* Arc::ptr_eq: two children are the same allocation
PtrEq(c1, c2) == c1.kind = "obj" /\ c2.kind = "obj" /\ c1.id = c2.id

\* rng.gen_range(0..3) and the generator after the draw
GenAxis(rng) == rng % 3
NextRng(rng) == rng \div 3

\* Color::random(rng): three draws for the node's debug material
AfterColor(rng) == NextRng(NextRng(NextRng(rng)))

\* the match of box_compare on the two boxes: the ordering, or the error
CompareBoxes(box_a, box_b, axis) ==
    IF box_a.some /\ box_b.some
    THEN [err |-> FALSE,
          ord |-> IF box_a.min[axis + 1] < box_b.min[axis + 1] THEN "Less"
                  ELSE IF box_a.min[axis + 1] > box_b.min[axis + 1]
                       THEN "Greater" ELSE "Equal"]
    ELSE [err |-> TRUE, ord |-> "Equal"]

\* box_compare on objects a and b
BoxCompare(prims, a, b, axis) ==
    CompareBoxes(PrimBox(prims[a], 0, 0), PrimBox(prims[b], 0, 0), axis)

\* one insertion of sort_by: x moves left past the elements it is Less than;
\* cmp is the comparator's answer for x and sorted[j]
RECURSIVE InsertTail(_, _, _, _, _, _)
InsertStep(prims, axis, sorted, j, x, errored, cmp) ==
    IF cmp.ord = "Less"
    THEN InsertTail(prims, axis, sorted, j - 1, x, errored \/ cmp.err)
    ELSE [seq |-> SubSeq(sorted, 1, j) \o <<x>>
                     \o SubSeq(sorted, j + 1, Len(sorted)),
          errored |-> errored \/ cmp.err]

InsertTail(prims, axis, sorted, j, x, errored) ==
    IF j = 0 THEN [seq |-> <<x>> \o sorted, errored |-> errored]
    ELSE InsertStep(prims, axis, sorted, j, x, errored,
                    BoxCompare(prims, x, sorted[j], axis))

\* objects.sort_by(comparator): a stable insertion sort, with the errored flag
RECURSIVE SortFrom(_, _, _, _, _)
SortFrom(prims, axis, objects, i, acc) ==
    IF i > Len(objects) THEN acc
    ELSE SortFrom(prims, axis, objects, i + 1,
                  InsertTail(prims, axis, acc.seq, Len(acc.seq), objects[i],
                             acc.errored))

SortByBox(prims, axis, objects) ==
    IF Len(objects) < 2 THEN [seq |-> objects, errored |-> FALSE]
    ELSE SortFrom(prims, axis, objects, 2,
                  [seq |-> <<objects[1]>>, errored |-> FALSE])

\* Hittable::bounding_box of a child
ChildBox(prims, child, time0, time1) ==
    IF child.kind = "obj" THEN PrimBox(prims[child.id], time0, time1)
    ELSE child.bbox

BuildErr == [ok |-> FALSE]

\* mutant: a child without a box is skipped instead of failing the build
NodeBoxLenient(box_left, box_right) ==
    IF box_left.some /\ box_right.some THEN SurroundingBox(box_left, box_right)
    ELSE IF box_left.some THEN box_left
    ELSE box_right

\* lines 105-117: the box of a node from the boxes of its children, or None
NodeBox(box_left, box_right) ==
    IF box_left.some /\ box_right.some THEN SurroundingBox(box_left, box_right)
    ELSE NoneBox

\* lines 105-117: the node with its cached box, or the error
BvhNewNode(left, right, rng, bbox) ==
    IF bbox.some
    THEN [ok |-> TRUE, node |-> NodeChild(left, right, bbox),
          rng |-> AfterColor(rng)]
    ELSE BuildErr

\* lines 105-117 on the two children chosen
BvhNewChildren(prims, left, right, rng, time0, time1) ==
    BvhNewNode(left, right, rng,
               NodeBox(ChildBox(prims, left, time0, time1),
                       ChildBox(prims, right, time0, time1)))

\* mutant: the midpoint is rounded up
MidpointCeil(len) == (len + 1) \div 2

\* line 95: src_objects.len() / 2
Midpoint(len) == len \div 2

\* lines 98-101: the right half is built with the generator the left half left
RECURSIVE BvhNew(_, _, _, _, _)
BvhNewRight(prims, built_left, built_right, time0, time1) ==
    IF ~built_right.ok THEN BuildErr
    ELSE BvhNewChildren(prims, built_left.node, built_right.node,
                        built_right.rng, time0, time1)

BvhNewLeft(prims, objects, built_left, time0, time1) ==
    IF ~built_left.ok THEN BuildErr
    ELSE BvhNewRight(prims, built_left,
                     BvhNew(built_left.rng, prims,
                            SubSeq(objects, Midpoint(Len(objects)) + 1,
                                   Len(objects)),
                            time0, time1),
                     time0, time1)

\* lines 80-101: the sorted objects are split at the midpoint
BvhNewSplit(rng, prims, sorted, time0, time1) ==
    IF sorted.errored THEN BuildErr
    ELSE BvhNewLeft(prims, sorted.seq,
                    BvhNew(NextRng(rng), prims,
                           SubSeq(sorted.seq, 1, Midpoint(Len(sorted.seq))),
                           time0, time1),
                    time0, time1)

\* mutant: whatever the length, the node holds the first object alone
BvhNewFirstOnly(rng, prims, src_objects, time0, time1) ==
    BvhNewChildren(prims, ObjChild(src_objects[1]), ObjChild(src_objects[1]),
                   rng, time0, time1)

\* BvhNode::new over the objects src_objects (indices into prims)
BvhNew(rng, prims, src_objects, time0, time1) ==
    IF Len(src_objects) = 1
    THEN BvhNewChildren(prims, ObjChild(src_objects[1]),
                        ObjChild(src_objects[1]), rng, time0, time1)
    ELSE IF Len(src_objects) = 2
    THEN BvhNewChildren(prims, ObjChild(src_objects[1]),
                        ObjChild(src_objects[2]), rng, time0, time1)
    ELSE BvhNewSplit(rng, prims,
                     SortByBox(prims, GenAxis(rng), src_objects), time0, time1)

\* mutant: a node whose box is missed still asks its children
NodePrunesNever(node, r, t_min, t_max) == FALSE

\* line 127: the node answers None when the interval misses its cached box
NodePrunes(node, r, t_min, t_max) == ~AabbHit(node.bbox, r, t_min, t_max)

\* mutant: the left hit if there is one, the right hit otherwise
CloserHitPreferLeft(hit_left, hit_right) ==
    IF hit_left.some THEN hit_left ELSE hit_right

\* lines 160-168: the right hit if there is one, the left hit otherwise
CloserHit(hit_left, hit_right) ==
    IF ~hit_right.some THEN hit_left ELSE hit_right

\* Hittable::hit of a child: a primitive's hit, or BvhNode::hit (debug off)
RECURSIVE ChildHit(_, _, _, _, _)
\* mutant: the right child is asked without any upper end of the interval
HitRightUnbounded(prims, right, r, t_min, t_max, hit_left) ==
    CloserHit(hit_left, ChildHit(prims, right, r, t_min, PosInf))

HitRight(prims, right, r, t_min, t_max, hit_left) ==
    CloserHit(hit_left,
              ChildHit(prims, right, r, t_min,
                       IF hit_left.some THEN hit_left.t ELSE t_max))

ChildHit(prims, child, r, t_min, t_max) ==
    IF child.kind = "obj"
    THEN PrimHit(prims[child.id], child.id, r, t_min, t_max)
    ELSE IF NodePrunes(child, r, t_min, t_max) THEN NoHit
    ELSE IF PtrEq(child.left, child.right)
    THEN ChildHit(prims, child.left, r, t_min, t_max)
    ELSE HitRight(prims, child.right, r, t_min, t_max,
                  ChildHit(prims, child.left, r, t_min, t_max))

BvhHit(prims, node, r, t_min, t_max) == ChildHit(prims, node, r, t_min, t_max)

\* the calls of hit that one BvhNode::hit makes, itself included: each call
\* is named by the path from the root to the child it is made on
HitCall(path, child, t_min, t_max) ==
    [path |-> path, kind |-> child.kind, t_min |-> t_min, t_max |-> t_max]

RECURSIVE HitCalls(_, _, _, _, _, _)
HitCallsRight(prims, path, right, r, t_min, t_max, hit_left) ==
    HitCalls(prims, path \o <<"right">>, right, r, t_min,
             IF hit_left.some THEN hit_left.t ELSE t_max)

HitCalls(prims, path, child, r, t_min, t_max) ==
    {HitCall(path, child, t_min, t_max)} \cup
    IF child.kind = "obj" THEN {}
    ELSE IF NodePrunes(child, r, t_min, t_max) THEN {}
    ELSE IF PtrEq(child.left, child.right)
    THEN HitCalls(prims, path \o <<"left">>, child.left, r, t_min, t_max)
    ELSE HitCalls(prims, path \o <<"left">>, child.left, r, t_min, t_max)
         \cup HitCallsRight(prims, path, child.right, r, t_min, t_max,
                            ChildHit(prims, child.left, r, t_min, t_max))

\* the calls of hit that one BvhNode::hit makes, itself first, in the order
\* in which they are made, each with the record it returns
HitReturn(path, child, t_min, t_max, res) ==
    [path |-> path, kind |-> child.kind, t_min |-> t_min, t_max |-> t_max,
     res |-> res]

RECURSIVE HitTrace(_, _, _, _, _, _)
HitTraceRight(prims, path, right, r, t_min, t_max, hit_left) ==
    HitTrace(prims, path \o <<"right">>, right, r, t_min,
             IF hit_left.some THEN hit_left.t ELSE t_max)

HitTrace(prims, path, child, r, t_min, t_max) ==
    <<HitReturn(path, child, t_min, t_max,
                ChildHit(prims, child, r, t_min, t_max))>> \o
    IF child.kind = "obj" THEN <<>>
    ELSE IF NodePrunes(child, r, t_min, t_max) THEN <<>>
    ELSE IF PtrEq(child.left, child.right)
    THEN HitTrace(prims, path \o <<"left">>, child.left, r, t_min, t_max)
    ELSE HitTrace(prims, path \o <<"left">>, child.left, r, t_min, t_max)
         \o HitTraceRight(prims, path, child.right, r, t_min, t_max,
                          ChildHit(prims, child.left, r, t_min, t_max))

(***************************************************************************)
(* The worlds, rays and intervals tried.                                   *)
(***************************************************************************)
MaxPrims == 3
MaxWorldSeed == 2

Sphere(center) == [kind |-> "sphere", center |-> center, radius |-> 1]
MovingSphere(center0, center1) ==
    [kind |-> "moving", center0 |-> center0, center1 |-> center1,
     time0 |-> 0, time1 |-> 1, radius |-> 1]
EmptyList == [kind |-> "list"]

Catalog ==
    { Sphere(<<0, 0, 3>>), Sphere(<<0, 0, 4>>), Sphere(<<1, 0, 6>>),
      MovingSphere(<<0, 0, 8>>, <<0, 3, 8>>), EmptyList }

Worlds == UNION { [1..n -> Catalog] : n \in 1..MaxPrims }

Rays ==
    [orig : {<<0, 0, 0>>, <<0, 0, 4>>},
     dir : {<<0, 0, 1>>, <<0, 0, -1>>, <<1, 0, 0>>},
     tm : {0, 1},
     debug_bvh : {FALSE}]

Intervals == {<<0, 3>>, <<0, 5>>, <<0, PosInf>>, <<3, 5>>, <<3, PosInf>>}

BvhInit ==
    /\ scene \in Worlds
    /\ world_rng \in 0..MaxWorldSeed
    /\ bvh = NotBuilt
    /\ query = NoQuery
    /\ rcolor = Unused /\ aabb = Unused /\ camera = Unused
    /\ filter_writer = Unused /\ idat_writer = Unused
    /\ tile_loop = Unused /\ build = Unused
    /\ width = 1 /\ height = 1 /\ nthreads = 1 /\ sample_seed = 0
    /\ current_pos = <<0, 0>>
    /\ mutex = 0
    /\ pc = [t \in Workers |-> "absent"]
    /\ previous_coords = [t \in Workers |-> NoCoords]
    /\ done = [t \in Workers |-> FALSE]
    /\ total_pixels = [t \in Workers |-> 0]
    /\ chan = <<>>
    /\ senders = 0
    /\ image = [row \in 0..0 |-> [col \in 0..0 |-> ColorZero]]
    /\ pixels_so_far = 0
    /\ collector = "recv"
    /\ claims = <<>>
    /\ sent = EmptyBag
    /\ received = EmptyBag

\* main.rs 143-148: BvhNode::new(&mut world_rng, world.as_ref(), 0.0, 1.0)
Build ==
    /\ bvh = NotBuilt
    /\ LET res == BvhNew(world_rng, scene, [k \in 1..Len(scene) |-> k], 0, 1) IN
        IF res.ok
        THEN /\ bvh' = [state |-> "ok", node |-> res.node]
             /\ world_rng' = res.rng
        ELSE /\ bvh' = [state |-> "err"]
             /\ world_rng' = world_rng
    /\ UNCHANGED <<scene, query>>
    /\ UNCHANGED <<rvars, xvars>>

\* one intersection query, answered by the BVH and by the linear scan; a
\* query changes nothing, so one query per behaviour shows them all
Query ==
    /\ bvh.state = "ok"
    /\ ~query.asked
    /\ \E r \in Rays : \E iv \in Intervals :
        query' = [asked |-> TRUE, r |-> r, t_min |-> iv[1], t_max |-> iv[2],
                  bvh_hit |-> BvhHit(scene, bvh.node, r, iv[1], iv[2]),
                  list_hit |-> ListHit(scene, r, iv[1], iv[2]),
                  calls |-> HitCalls(scene, <<>>, bvh.node, r, iv[1], iv[2]),
                  trace |-> HitTrace(scene, <<>>, bvh.node, r, iv[1], iv[2])]
    /\ UNCHANGED <<scene, world_rng, bvh>>
    /\ UNCHANGED <<rvars, xvars>>

BvhNext == Build \/ Query

BvhSpec == BvhInit /\ [][BvhNext]_vars

(***************************************************************************)
(* The parts of the program a run of one component leaves untouched.       *)
(***************************************************************************)
RenderUnused ==
    /\ width = 1 /\ height = 1 /\ nthreads = 1 /\ sample_seed = 0
    /\ current_pos = <<0, 0>>
    /\ mutex = 0
    /\ pc = [t \in Workers |-> "absent"]
    /\ previous_coords = [t \in Workers |-> NoCoords]
    /\ done = [t \in Workers |-> FALSE]
    /\ total_pixels = [t \in Workers |-> 0]
    /\ chan = <<>>
    /\ senders = 0
    /\ image = [row \in 0..0 |-> [col \in 0..0 |-> ColorZero]]
    /\ pixels_so_far = 0
    /\ collector = "recv"
    /\ claims = <<>>
    /\ sent = EmptyBag
    /\ received = EmptyBag

BvhUnused ==
    /\ scene = <<>>
    /\ world_rng = 0
    /\ bvh = NotBuilt
    /\ query = NoQuery

(***************************************************************************)
(* ray_color (common/raytracer.rs 32-57).  The recursion is a stack of     *)
(* frames; the world and the materials are any world and any materials:    *)
(* each world.hit misses, or hits a material that emits and either         *)
(* scatters with an attenuation or does not.  A color is one channel; +    *)
(* and * of Color act on each channel alike.                               *)
(***************************************************************************)
MaxDepth == 3

Depths == (-1)..MaxDepth
Backgrounds == {0, 3}
Emissions == {0, 1}
Attenuations == {0, 2}

\* what world.hit, emitted and scatter answer at one bounce
Outcomes ==
    {[kind |-> "miss"]}
    \cup [kind : {"absorb"}, emitted : Emissions]
    \cup [kind : {"scatter"}, emitted : Emissions, attenuation : Attenuations]

Frame(depth) ==
    [depth |-> depth, pc |-> "enter", emitted |-> 0, attenuation |-> 0]

Top(rc) == rc.stack[Len(rc.stack)]

\* mutant: the recursion stops one level late
DepthExhaustedLate(depth) == depth < 0

\* line 41: depth <= 0
DepthExhausted(depth) == depth <= 0

\* mutant: the attenuation is applied to the emitted light too
CombineAttenuatesEmitted(emitted, attenuation, color) ==
    attenuation * (emitted + color)

\* lines 48-50: emitted + res.attenuation * ray_color(...)
Combine(emitted, attenuation, color) == emitted + attenuation * color

\* the running frame returns color to its caller, or to render
Return(rc, color, closed) ==
    [rc EXCEPT !.stack = SubSeq(rc.stack, 1, Len(rc.stack) - 1),
               !.ret = color,
               !.closed = closed,
               !.state = IF Len(rc.stack) = 1 THEN "done" ELSE "ret",
               !.result = IF Len(rc.stack) = 1 THEN color ELSE rc.result]

RayInit ==
    /\ \E depth \in Depths : \E background \in Backgrounds :
        rcolor = [state |-> "run", max_depth |-> depth,
                  background |-> background, stack |-> <<Frame(depth)>>,
                  hits |-> 0, peak_depth |-> 0, ret |-> 0, result |-> 0,
                  path |-> <<>>, closed |-> "open"]
    /\ aabb = Unused /\ camera = Unused
    /\ filter_writer = Unused /\ idat_writer = Unused
    /\ tile_loop = Unused /\ build = Unused
    /\ RenderUnused
    /\ BvhUnused

\* lines 40-43: a call of ray_color counts itself and tests the depth
RayColorEnter ==
    /\ rcolor.state = "run"
    /\ Top(rcolor).pc = "enter"
    /\ rcolor' =
        IF DepthExhausted(Top(rcolor).depth)
        THEN Return([rcolor EXCEPT !.peak_depth = @ + 1], 0, "exhausted")
        ELSE [rcolor EXCEPT !.peak_depth = @ + 1,
                            !.stack[Len(rcolor.stack)].pc = "hit"]
    /\ UNCHANGED <<aabb, camera, filter_writer, idat_writer, tile_loop, build>>
    /\ UNCHANGED <<rvars, bvars>>

\* lines 45, 54-56: world.hit finds nothing
WorldMiss ==
    /\ rcolor.state = "run"
    /\ Top(rcolor).pc = "hit"
    /\ rcolor' = Return([rcolor EXCEPT !.hits = @ + 1],
                        rcolor.background, "miss")
    /\ UNCHANGED <<aabb, camera, filter_writer, idat_writer, tile_loop, build>>
    /\ UNCHANGED <<rvars, bvars>>

\* lines 45-47, 51-53: a hit on a material that does not scatter
WorldHitAbsorb ==
    /\ rcolor.state = "run"
    /\ Top(rcolor).pc = "hit"
    /\ \E o \in Outcomes :
        /\ o.kind = "absorb"
        /\ rcolor' = Return([rcolor EXCEPT !.hits = @ + 1,
                                           !.path = Append(@, o)],
                            o.emitted, "absorbed")
    /\ UNCHANGED <<aabb, camera, filter_writer, idat_writer, tile_loop, build>>
    /\ UNCHANGED <<rvars, bvars>>

\* lines 45-50: a hit on a material that scatters; ray_color calls itself
WorldHitScatter ==
    /\ rcolor.state = "run"
    /\ Top(rcolor).pc = "hit"
    /\ \E o \in Outcomes :
        /\ o.kind = "scatter"
        /\ rcolor' =
            [rcolor EXCEPT
                !.hits = @ + 1,
                !.path = Append(@, o),
                !.stack = Append(
                    [@ EXCEPT ![Len(@)] =
                        [@ EXCEPT !.pc = "wait", !.emitted = o.emitted,
                                  !.attenuation = o.attenuation]],
                    Frame(Top(rcolor).depth - 1))]
    /\ UNCHANGED <<aabb, camera, filter_writer, idat_writer, tile_loop, build>>
    /\ UNCHANGED <<rvars, bvars>>

\* lines 48-50: the inner call has returned; the caller combines and returns
RayColorResume ==
    /\ rcolor.state = "ret"
    /\ Top(rcolor).pc = "wait"
    /\ rcolor' = Return(rcolor,
                        Combine(Top(rcolor).emitted, Top(rcolor).attenuation,
                                rcolor.ret),
                        rcolor.closed)
    /\ UNCHANGED <<aabb, camera, filter_writer, idat_writer, tile_loop, build>>
    /\ UNCHANGED <<rvars, bvars>>

RayNext ==
    \/ RayColorEnter
    \/ WorldMiss
    \/ WorldHitAbsorb
    \/ WorldHitScatter
    \/ RayColorResume

RaySpec == RayInit /\ [][RayNext]_vars

(***************************************************************************)
(* Aabb::surrounding_box and Aabb::hit on their own (aabb.rs).  For hit,   *)
(* coordinates and ray parameters are counted in halves, Half to the unit. *)
(***************************************************************************)
MaxCoord == 1

Half == 2

\* boxes with min <= max on every axis
CoordPairs == {p \in (0..MaxCoord) \X (0..MaxCoord) : p[1] <= p[2]}
SmallBoxes ==
    {SomeBox(<<x[1], y[1], z[1]>>, <<x[2], y[2], z[2]>>) :
        x \in CoordPairs, y \in CoordPairs, z \in CoordPairs}

UnitBox == SomeBox(<<0, 0, 0>>, <<Half, Half, Half>>)
HitBoxes ==
    {UnitBox,
     SomeBox(<<0, 0, Half>>, <<Half, Half, 2 * Half>>),
     SomeBox(<<0, 0, 0>>, <<Half, 0, Half>>)}
HitOrigins ==
    {<<1, 1, -5 * Half>>, <<1, 1, 1>>, <<0, 1, -5 * Half>>, <<3, 1, 1>>,
     <<1, 1, 3 * Half>>}
HitDirections ==
    {<<0, 0, 1>>, <<0, 0, -1>>, <<1, 0, 1>>, <<1, 0, 0>>, <<-1, 0, -1>>,
     <<0, 1, 0>>}
HitIntervals ==
    {<<0, PosInf>>, <<0, 4 * Half>>, <<4 * Half, 5 * Half>>,
     <<5 * Half, 6 * Half>>, <<6 * Half, PosInf>>, <<0, 11>>}

AabbInit ==
    /\ \/ \E box0 \in SmallBoxes : \E box1 \in SmallBoxes :
            aabb = [op |-> "surrounding_box", state |-> "given",
                    box0 |-> box0, box1 |-> box1]
       \/ \E box \in HitBoxes : \E orig \in HitOrigins :
          \E dir \in HitDirections : \E iv \in HitIntervals :
            aabb = [op |-> "hit", state |-> "given", box |-> box,
                    r |-> [orig |-> orig, dir |-> dir, tm |-> 0,
                           debug_bvh |-> FALSE],
                    t_min |-> iv[1], t_max |-> iv[2]]
    /\ rcolor = Unused /\ camera = Unused
    /\ filter_writer = Unused /\ idat_writer = Unused
    /\ tile_loop = Unused /\ build = Unused
    /\ RenderUnused
    /\ BvhUnused

\* Aabb::surrounding_box(box0, box1), and with the arguments the other way
\* round and with box0 twice
Surround ==
    /\ aabb.op = "surrounding_box"
    /\ aabb.state = "given"
    /\ aabb' = [aabb EXCEPT !.state = "returned"] @@
               [ab |-> SurroundingBox(aabb.box0, aabb.box1),
                ba |-> SurroundingBox(aabb.box1, aabb.box0),
                aa |-> SurroundingBox(aabb.box0, aabb.box0)]
    /\ UNCHANGED <<rcolor, camera, filter_writer, idat_writer, tile_loop, build>>
    /\ UNCHANGED <<rvars, bvars>>

\* box.hit(r, t_min, t_max)
HitBox ==
    /\ aabb.op = "hit"
    /\ aabb.state = "given"
    /\ aabb' = [aabb EXCEPT !.state = "returned"] @@
               [res |-> AabbHitFrom(aabb.box, aabb.r, 1, aabb.t_min, aabb.t_max)]
    /\ UNCHANGED <<rcolor, camera, filter_writer, idat_writer, tile_loop, build>>
    /\ UNCHANGED <<rvars, bvars>>

AabbNext == Surround \/ HitBox

AabbSpec == AabbInit /\ [][AabbNext]_vars

(***************************************************************************)
(* Camera::get_ray (scene/camera.rs 66-74).  rng.gen_range(low..high) of   *)
(* the rand crate panics on an empty range and otherwise returns a value   *)
(* in [low, high).                                                         *)
(***************************************************************************)
MaxTime == 3

Times == 0..MaxTime

\* Rng::gen_range(low..high): the values it can return; none when it panics
GenRange(low, high) == {x \in Times : low <= x /\ x < high}

\* Rng::gen_range(low..high) panics when the range is empty
GenRangePanics(low, high) == ~(low < high)

\* Vec3::random_in_unit_disk: the lattice points of the open unit disk
DiskSamples == {<<0, 0, 0>>}

CameraInit ==
    /\ \E time0 \in Times : \E time1 \in Times :
       \E lens_radius \in {0, 1} : \E s \in {0, 1} : \E t \in {0, 1} :
        camera = [state |-> "constructed",
                  origin |-> <<0, 0, 0>>,
                  lower_left_corner |-> <<-1, -1, -1>>,
                  horizontal |-> <<2, 0, 0>>, vertical |-> <<0, 2, 0>>,
                  u |-> <<1, 0, 0>>, v |-> <<0, 1, 0>>,
                  lens_radius |-> lens_radius,
                  time0 |-> time0, time1 |-> time1,
                  s |-> s, t |-> t]
    /\ rcolor = Unused /\ aabb = Unused
    /\ filter_writer = Unused /\ idat_writer = Unused
    /\ tile_loop = Unused /\ build = Unused
    /\ RenderUnused
    /\ BvhUnused

\* lines 67-73 for one sample rd of the lens disk and one shutter time tm
GetRayResult(cam, rd, tm) ==
    [orig |-> VAdd(cam.origin,
                   VAdd(VScale(rd[1], cam.u), VScale(rd[2], cam.v))),
     dir |-> VSub(VSub(VAdd(VAdd(cam.lower_left_corner,
                                 VScale(cam.s, cam.horizontal)),
                            VScale(cam.t, cam.vertical)),
                       cam.origin),
                  VAdd(VScale(rd[1], cam.u), VScale(rd[2], cam.v))),
     tm |-> tm]

\* cam.get_ray(rng, s, t)
GetRay ==
    /\ camera.state = "constructed"
    /\ IF GenRangePanics(camera.time0, camera.time1)
       THEN camera' = [camera EXCEPT !.state = "panicked"]
       ELSE \E d \in DiskSamples :
            \E tm \in GenRange(camera.time0, camera.time1) :
              camera' = [camera EXCEPT !.state = "returned"] @@
                        [ray |-> GetRayResult(camera,
                                              VScale(camera.lens_radius, d), tm)]
    /\ UNCHANGED <<rcolor, aabb, filter_writer, idat_writer, tile_loop, build>>
    /\ UNCHANGED <<rvars, bvars>>

CameraNext == GetRay

CameraSpec == CameraInit /\ [][CameraNext]_vars

(***************************************************************************)
(* FilterWriter (output/png/mod.rs 44-88).  The caller holds the bytes     *)
(* data, has had the first fed of them accepted, and offers the writer any *)
(* number of the bytes that follow, none included, call after call.        *)
(***************************************************************************)
MaxData == 4
MaxScanline == 3
MaxFilterWrites == 5

FilterNone == 0

Bytes == {0, 5}
Datas == UNION {[1..n -> Bytes] : n \in 0..MaxData}

\* FilterWriter::write(buf): the writer after the call, with the count it
\* reports in ret
FilterWriterWrite(fw, buf) ==
    LET amount == Min(Len(buf), fw.scanline_size - fw.scanline_pos) IN
    [fw EXCEPT
        !.current_filter = IF fw.scanline_pos = 0 THEN fw.next_filter ELSE @,
        !.dest = (IF fw.scanline_pos = 0 THEN @ \o <<fw.next_filter>> ELSE @)
                 \o SubSeq(buf, 1, amount),
        !.scanline_pos = (@ + amount) % fw.scanline_size,
        !.ret = amount]

\* FilterWriter::new(dest, FilterType::None, scanline_size) on an empty dest
FilterInit ==
    /\ \E data \in Datas : \E scanline_size \in 1..MaxScanline :
        filter_writer =
            [dest |-> <<>>, current_filter |-> FilterNone,
             next_filter |-> FilterNone, scanline_size |-> scanline_size,
             scanline_pos |-> 0, ret |-> 0,
             data |-> data, fed |-> 0, writes |-> 0]
    /\ rcolor = Unused /\ aabb = Unused
    /\ camera = Unused /\ idat_writer = Unused
    /\ tile_loop = Unused /\ build = Unused
    /\ RenderUnused
    /\ BvhUnused

\* one call of write with the next n bytes of the data; the caller goes on
\* after the bytes the call reports as written
FilterWrite ==
    /\ filter_writer.writes < MaxFilterWrites
    /\ \E n \in 0..(Len(filter_writer.data) - filter_writer.fed) :
        LET after == FilterWriterWrite(
                         filter_writer,
                         SubSeq(filter_writer.data, filter_writer.fed + 1,
                                filter_writer.fed + n))
        IN  filter_writer' = [after EXCEPT !.fed = @ + after.ret,
                                           !.writes = @ + 1]
    /\ UNCHANGED <<rcolor, aabb, camera, idat_writer, tile_loop, build>>
    /\ UNCHANGED <<rvars, bvars>>

FilterNext == FilterWrite

FilterSpec == FilterInit /\ [][FilterNext]_vars

(***************************************************************************)
(* IdatWriter, PngChunk::write_to for an IDAT chunk and Crc32              *)
(* (output/png/mod.rs 17-36, output/png/chunk.rs 43-89, 151-232).  u32     *)
(* values are integers below 2^32.                                         *)
(***************************************************************************)
MaxIdatWrites == 2

\* a u32 is its four bytes, the most significant first
Crc32Seed == <<255, 255, 255, 255>>
Crc32Poly == <<237, 184, 131, 32>>
IDAT_SIZE == 8192

\* b"IDAT"
IdatTag == <<73, 68, 65, 84>>

\* the data of test_idat_writer
TestData ==
    <<120, 156, 99, 56, 180, 127, 221, 230, 253, 10, 124, 135, 230, 112,
      110, 82, 218, 32, 52, 119, 59, 131, 162, 48, 227, 74, 6, 144,
      232, 1, 176, 232, 102, 144, 232, 14, 160, 40, 195, 74, 134, 83,
      71, 54, 110, 218, 47, 201, 126, 100, 22, 199, 46, 133, 237, 66,
      139, 247, 51, 40, 11, 51, 172, 103, 176, 243, 159, 93, 86, 21,
      84, 146, 182, 82, 220, 193, 208, 210, 173, 216, 153, 87, 210, 199,
      165, 150, 129, 193, 40, 105, 223, 229, 7, 59, 123, 78, 107, 50,
      68, 50, 48, 50, 0, 1, 11, 43, 3, 0, 154, 243, 39, 157>>

Buffers ==
    {<<>>, <<0>>, <<255>>, <<120, 156>>, <<1, 2, 3>>, <<5, 5, 5, 5>>,
     <<0, 0>>, <<73, 68, 65, 84>>, <<255, 255, 255>>, TestData}

\* the most bytes one write of the underlying writer takes
Grains == {1, 3, IDAT_SIZE + 12}

\* (x as u32).to_be_bytes() of a length x
ToBeBytes(x) ==
    <<(x \div 16777216) % 256, (x \div 65536) % 256, (x \div 256) % 256, x % 256>>

\* u32 ^ u32, u32 >> 1, u32 >> 8 and !u32
Xor32(c, d) ==
    <<BitXor(c[1], d[1]), BitXor(c[2], d[2]), BitXor(c[3], d[3]),
      BitXor(c[4], d[4])>>
Shr1(c) ==
    <<c[1] \div 2, (c[1] % 2) * 128 + c[2] \div 2,
      (c[2] % 2) * 128 + c[3] \div 2, (c[3] % 2) * 128 + c[4] \div 2>>
Shr8(c) == <<0, c[1], c[2], c[3]>>
Not32(c) == <<255 - c[1], 255 - c[2], 255 - c[3], 255 - c[4]>>

U32 == [1..4 -> 0..255]

\* lines 54-62: the table entry, k rounds to go
RECURSIVE TableEntry(_, _)
TableEntry(c, k) ==
    IF k = 0 THEN c
    ELSE IF c[4] % 2 # 0
    THEN TableEntry(Xor32(Crc32Poly, Shr1(c)), k - 1)
    ELSE TableEntry(Shr1(c), k - 1)

Table(i) == TableEntry(<<0, 0, 0, i>>, 8)

\* Crc32::update on the bytes of buf from the k-th on; the register is a
\* u32 before every byte
RECURSIVE Crc32Update(_, _, _)
Crc32Update(crc, buf, k) ==
    IF k > Len(buf) \/ crc \notin U32 THEN crc
    ELSE Crc32Update(Xor32(Table(BitXor(crc[4], buf[k])), Shr8(crc)),
                     buf, k + 1)

\* mutant: the register is handed out without the final complement
Crc32GetRaw(crc) == crc

\* Crc32::get: !self.0
Crc32Get(crc) == Not32(crc)

\* Crc32::new(dest)
Crc32New(dest) == [crc |-> Crc32Seed, dest |-> dest]

\* Crc32::write: the underlying writer takes n bytes, the hash the same n
Crc32Write(w, bytes, n) ==
    [crc |-> Crc32Update(w.crc, SubSeq(bytes, 1, n), 1),
     dest |-> w.dest \o SubSeq(bytes, 1, n)]

\* Write::write_all on a Crc32: write until the buffer is empty
RECURSIVE Crc32WriteAll(_, _, _)
Crc32WriteAll(w, buf, grain) ==
    IF buf = <<>> \/ w.crc \notin U32 THEN w
    ELSE Crc32WriteAll(Crc32Write(w, buf, Min(Len(buf), grain)),
                       SubSeq(buf, Min(Len(buf), grain) + 1, Len(buf)), grain)

\* line 231: the checksum taken before its own bytes are written
Crc32Finish(w, grain) == Crc32WriteAll(w, Crc32Get(w.crc), grain)

\* PngChunk::Idat(data).write_to(w): the bytes of w after the call
WriteTo(dest, data, grain) ==
    Crc32Finish(
        Crc32WriteAll(
            Crc32WriteAll(Crc32New(dest \o ToBeBytes(Len(data))), IdatTag, grain),
            data, grain),
        grain).dest

IdatInit ==
    /\ idat_writer = [dest |-> <<>>, bufs |-> <<>>, ret |-> 0]
    /\ rcolor = Unused /\ aabb = Unused
    /\ camera = Unused /\ filter_writer = Unused
    /\ tile_loop = Unused /\ build = Unused
    /\ RenderUnused
    /\ BvhUnused

\* IdatWriter::write(buf)
IdatWrite ==
    /\ Len(idat_writer.bufs) < MaxIdatWrites
    /\ \E buf \in Buffers : \E grain \in Grains :
        idat_writer' = [dest |-> WriteTo(idat_writer.dest, buf, grain),
                        bufs |-> Append(idat_writer.bufs, buf),
                        ret |-> Len(buf)]
    /\ UNCHANGED <<rcolor, aabb, camera, filter_writer, tile_loop, build>>
    /\ UNCHANGED <<rvars, bvars>>

IdatNext == IdatWrite

IdatSpec == IdatInit /\ [][IdatNext]_vars

(***************************************************************************)
(* One worker of render (common/raytracer.rs lines 79-146), cell by cell:  *)
(* the claim, Tile::new, the fresh generator, the two pixel loops and the  *)
(* send.  The other workers show only in the cursor they move.             *)
(***************************************************************************)
\* image widths and heights of the cell-by-cell runs: a single pixel, a
\* clipped single tile, an exact tile, and the largest image
TileLengths(max) == {1, TILE_SIZE - 1, TILE_SIZE, max}

TileSeeds == {0, 21}

\* value of the local `tile` before Tile::new and after the send moved it
Moved == [state |-> "moved"]

\* Tile::new(x, y), with the number of stores made to each cell
TileNew(x, y) ==
    [x |-> x, y |-> y,
     pixels |-> [r \in 0..(TILE_SIZE - 1) |->
                    [c \in 0..(TILE_SIZE - 1) |-> ColorZero]],
     writes |-> [r \in 0..(TILE_SIZE - 1) |->
                    [c \in 0..(TILE_SIZE - 1) |-> 0]]]

\* seed_from_u64(seed ^ x ^ y): a generator that has drawn nothing yet
SeedFromU64(s) == [seed |-> s, n |-> 0]

\* mutant: the column test of the inner loop is missing
LoopSkipsRowsOnly(i, j, w, h) == j >= h

\* lines 106-108 and 111-113: the cell (i, j) is skipped
LoopSkips(i, j, w, h) == j >= h \/ i >= w

\* lines 115-139: the store into the tile and the draws it takes
StorePixel(tile, rng, i, j) ==
    [tile EXCEPT !.pixels[j - tile.y][i - tile.x] =
                     PixelColor(RngDraw(rng.seed, rng.n), i, j),
                 !.writes[j - tile.y][i - tile.x] = @ + 1]

TileInit ==
    /\ \E w \in TileLengths(MaxWidth), h \in TileLengths(MaxHeight),
          s \in TileSeeds :
          tile_loop = [width |-> w, height |-> h, seed |-> s,
                       current_pos |-> <<0, 0>>, pc |-> "claim",
                       done |-> FALSE, total_pixels |-> 0,
                       tile |-> Moved, rng |-> SeedFromU64(0),
                       i |-> 0, j |-> 0, out |-> <<>>, seeded |-> <<>>]
    /\ rcolor = Unused /\ aabb = Unused /\ camera = Unused
    /\ filter_writer = Unused /\ idat_writer = Unused /\ build = Unused
    /\ RenderUnused
    /\ BvhUnused

\* lines 80-102: the critical section, Tile::new, the generator of the tile
TileClaim ==
    /\ tile_loop.pc = "claim"
    /\ LET a == AdvanceCursor(tile_loop.current_pos, tile_loop.width,
                              tile_loop.height)
           x == tile_loop.current_pos[1]
           y == tile_loop.current_pos[2]
       IN  tile_loop' =
             IF a.ret
             THEN [tile_loop EXCEPT !.current_pos = a.pos, !.done = a.done,
                                    !.pc = "returned"]
             ELSE [tile_loop EXCEPT
                      !.current_pos = a.pos, !.done = a.done,
                      !.tile = TileNew(x, y),
                      !.rng = SeedFromU64(TileSeed(tile_loop.seed, x, y)),
                      !.seeded = Append(@, [x |-> x, y |-> y,
                                            seed |-> TileSeed(tile_loop.seed, x, y)]),
                      !.j = y + TILE_SIZE - 1, !.i = x,
                      !.pc = "loop"]
    /\ UNCHANGED <<rcolor, aabb, camera, filter_writer, idat_writer, build>>
    /\ UNCHANGED <<rvars, bvars>>

\* another worker goes through its critical section and takes a tile;
\* tile_loop.seeded is the history of the generators this worker created
OtherClaim ==
    /\ tile_loop.pc \in {"claim", "loop", "send"}
    /\ tile_loop.current_pos[2] < tile_loop.height
    /\ tile_loop' =
          [tile_loop EXCEPT
              !.current_pos = AdvanceCursor(tile_loop.current_pos,
                                            tile_loop.width,
                                            tile_loop.height).pos]
    /\ UNCHANGED <<rcolor, aabb, camera, filter_writer, idat_writer, build>>
    /\ UNCHANGED <<rvars, bvars>>

\* lines 105-141: one cell of the loops, j from y+15 down to y, i from x up
TileCell ==
    /\ tile_loop.pc = "loop"
    /\ LET i == tile_loop.i
           j == tile_loop.j
           x == tile_loop.tile.x
           y == tile_loop.tile.y
           last == i = x + TILE_SIZE - 1
           stepped ==
             IF LoopSkips(i, j, tile_loop.width, tile_loop.height)
             THEN tile_loop
             ELSE [tile_loop EXCEPT
                      !.tile = StorePixel(tile_loop.tile, tile_loop.rng, i, j),
                      !.rng.n = @ + 1,
                      !.total_pixels = @ + 1]
       IN  tile_loop' =
             [stepped EXCEPT
                 !.i = IF last THEN x ELSE i + 1,
                 !.j = IF last THEN j - 1 ELSE j,
                 !.pc = IF last /\ j = y THEN "send" ELSE "loop"]
    /\ UNCHANGED <<rcolor, aabb, camera, filter_writer, idat_writer, build>>
    /\ UNCHANGED <<rvars, bvars>>

\* line 145: out.send(tile) moves the tile; then the loop condition
TileSend ==
    /\ tile_loop.pc = "send"
    /\ tile_loop' =
          [tile_loop EXCEPT
              !.out = Append(@, tile_loop.tile),
              !.tile = Moved,
              !.pc = IF tile_loop.done THEN "returned" ELSE "claim"]
    /\ UNCHANGED <<rcolor, aabb, camera, filter_writer, idat_writer, build>>
    /\ UNCHANGED <<rvars, bvars>>

TileNext == TileClaim \/ OtherClaim \/ TileCell \/ TileSend

TileSpec == TileInit /\ [][TileNext]_vars

(***************************************************************************)
(* BvhNode::new call by call (scene/bvh.rs lines 68-118): every call is a  *)
(* frame on the thread's stack, which holds MaxStack frames.               *)
(***************************************************************************)
MaxStack == 5

NoChild == [kind |-> "none"]

\* the frame of a call of BvhNode::new on src_objects, at its first line
Frame0(src_objects) ==
    [src_objects |-> src_objects, pc |-> "enter", objects |-> <<>>,
     axis |-> 0, left |-> NoChild, result |-> BuildErr]

\* the lists given to the build: the worlds, and the list without objects
BuildWorlds == Worlds \cup {<<>>}

BuildInit ==
    /\ \E w \in BuildWorlds, g \in 0..MaxWorldSeed :
          build = [prims |-> w, rng |-> g, state |-> "running",
                   stack |-> <<Frame0([k \in 1..Len(w) |-> k])>>,
                   result |-> BuildErr]
    /\ rcolor = Unused /\ aabb = Unused /\ camera = Unused
    /\ filter_writer = Unused /\ idat_writer = Unused /\ tile_loop = Unused
    /\ RenderUnused
    /\ BvhUnused

\* the stack with its top frame replaced
WithTop(stack, frame) == [stack EXCEPT ![Len(stack)] = frame]

\* lines 105-117 in the top frame: the call is about to return res
Returning(b, res) ==
    [b EXCEPT !.stack = WithTop(@, [@[Len(@)] EXCEPT !.pc = "ret",
                                                     !.result = res]),
              !.rng = IF res.ok THEN res.rng ELSE @]

\* a call of BvhNode::new on objects from the top frame, which waits at
\* next with its locals: the comparator's axis and the sorted objects
Calling(b, next, axis, sorted, objects) ==
    IF Len(b.stack) >= MaxStack
    THEN [b EXCEPT !.state = "overflow"]
    ELSE [b EXCEPT !.stack =
            Append(WithTop(@, [@[Len(@)] EXCEPT !.pc = next,
                                                !.axis = axis,
                                                !.objects = sorted]),
                   Frame0(objects))]

\* lines 74-97: the match on the length; the sort, the midpoint and the
\* call on the left half when the length is neither 1 nor 2
BuildEnterSplit(b, axis, sorted) ==
    IF sorted.errored THEN Returning(b, BuildErr)
    ELSE Calling([b EXCEPT !.rng = NextRng(@)], "left", axis, sorted.seq,
                 SubSeq(sorted.seq, 1, Midpoint(Len(sorted.seq))))

BuildEnterFrame(b, src_objects) ==
    IF Len(src_objects) = 1
    THEN Returning(b, BvhNewChildren(b.prims, ObjChild(src_objects[1]),
                                     ObjChild(src_objects[1]), b.rng, 0, 1))
    ELSE IF Len(src_objects) = 2
    THEN Returning(b, BvhNewChildren(b.prims, ObjChild(src_objects[1]),
                                     ObjChild(src_objects[2]), b.rng, 0, 1))
    ELSE BuildEnterSplit(b, GenAxis(b.rng),
                         SortByBox(b.prims, GenAxis(b.rng), src_objects))

BuildEnter ==
    /\ build.state = "running"
    /\ build.stack[Len(build.stack)].pc = "enter"
    /\ build' = BuildEnterFrame(build,
                                build.stack[Len(build.stack)].src_objects)
    /\ UNCHANGED <<rcolor, aabb, camera, filter_writer, idat_writer, tile_loop>>
    /\ UNCHANGED <<rvars, bvars>>

\* the stack without its top frame
Popped(b) == [b EXCEPT !.stack = SubSeq(@, 1, Len(@) - 1)]

\* lines 97-117: a call returned res to the frame that made it
BuildResume(b, caller, res) ==
    IF ~res.ok THEN Returning(b, BuildErr)
    ELSE IF caller.pc = "left"
    THEN Calling([b EXCEPT !.stack = WithTop(@, [caller EXCEPT
                                                    !.left = res.node])],
                 "right", caller.axis, caller.objects,
                 SubSeq(caller.objects, Midpoint(Len(caller.objects)) + 1,
                        Len(caller.objects)))
    ELSE Returning(b, BvhNewChildren(b.prims, caller.left, res.node, b.rng,
                                     0, 1))

BuildReturn ==
    /\ build.state = "running"
    /\ build.stack[Len(build.stack)].pc = "ret"
    /\ build' =
          IF Len(build.stack) = 1
          THEN [build EXCEPT !.state = "returned",
                             !.result = build.stack[1].result,
                             !.stack = <<>>]
          ELSE BuildResume(Popped(build),
                           build.stack[Len(build.stack) - 1],
                           build.stack[Len(build.stack)].result)
    /\ UNCHANGED <<rcolor, aabb, camera, filter_writer, idat_writer, tile_loop>>
    /\ UNCHANGED <<rvars, bvars>>

BuildNext == BuildEnter \/ BuildReturn

BuildSpec == BuildInit /\ [][BuildNext]_vars

(***************************************************************************)
(* The earlier render loop (src/raytracer.rs lines 53-103): the same       *)
(* cursor and channel, other tests, the generator handed in by the caller. *)
(***************************************************************************)
\* lines 66-75: the new cursor, and whether render returns from inside the
\* critical section
OldAdvanceCursor(prev, w, h) ==
    LET g0 == prev[1] + TILE_SIZE
        g1 == prev[2] + TILE_SIZE
    IN  IF g0 > w
        THEN IF g1 > h
             THEN [pos |-> <<g0, g1>>, ret |-> TRUE]
             ELSE [pos |-> <<0, g1>>, ret |-> FALSE]
        ELSE [pos |-> <<g0, prev[2]>>, ret |-> FALSE]

\* lines 78-99: the tile of worker t, whose generator has made n blocks of
\* draws before
OldRenderTile(t, n, x, y, w, h) ==
    [x |-> x, y |-> y,
     pixels |->
        [r \in 0..(TILE_SIZE - 1) |->
            [c \in 0..(TILE_SIZE - 1) |->
                IF y + r >= h \/ x + c >= w
                THEN ColorZero
                ELSE PixelColor(RngDraw(t, n + PixelRank(x, y, x + c, y + r, w, h)),
                                x + c, y + r)]]]

\* the rest of the critical section; the guard is dropped at its end
OldAdvance(t) ==
    /\ pc[t] = "crit"
    /\ LET a == OldAdvanceCursor(previous_coords[t], width, height) IN
        /\ current_pos' = a.pos
        /\ IF a.ret
           THEN /\ pc' = [pc EXCEPT ![t] = "returned"]
                /\ senders' = senders - 1
                /\ claims' = claims
                /\ previous_coords' = [previous_coords EXCEPT ![t] = NoCoords]
           ELSE /\ pc' = [pc EXCEPT ![t] = "render"]
                /\ senders' = senders
                /\ claims' = Append(claims, previous_coords[t])
                /\ previous_coords' = previous_coords
    /\ mutex' = 0
    /\ UNCHANGED <<width, height, nthreads, sample_seed, done, total_pixels,
                   chan, image, pixels_so_far, collector, sent, received>>
    /\ UNCHANGED <<bvars, xvars>>

\* render the tile, send it, loop; total_pixels[t] counts the blocks of
\* draws the generator of worker t has made
OldRenderSend(t) ==
    /\ pc[t] = "render"
    /\ LET x == previous_coords[t][1]
           y == previous_coords[t][2]
       IN  /\ chan' = Append(chan, OldRenderTile(t, total_pixels[t], x, y,
                                                 width, height))
           /\ sent' = sent (+) SetToBag({<<x, y>>})
           /\ total_pixels' = [total_pixels EXCEPT
                                 ![t] = @ + TileRows(y, height) * TileCols(x, width)]
    /\ pc' = [pc EXCEPT ![t] = "lock"]
    /\ previous_coords' = [previous_coords EXCEPT ![t] = NoCoords]
    /\ UNCHANGED <<width, height, nthreads, sample_seed, current_pos, mutex,
                   done, senders, image, pixels_so_far, collector, claims,
                   received>>
    /\ UNCHANGED <<bvars, xvars>>

OldNext ==
    \/ \E t \in Workers : Lock(t)
    \/ \E t \in Workers : OldAdvance(t)
    \/ \E t \in Workers : OldRenderSend(t)

OldSpec == Init /\ [][OldNext]_vars

(***************************************************************************)
(* Properties of the tile scheduler.                                       *)
(***************************************************************************)
AllReturned == \A t \in Workers : pc[t] \in {"returned", "absent"}

CeilDiv(a, b) == (a + b - 1) \div b

\* origins of sent tiles whose region, clipped to the image, holds pixel (i, j)
Covering(i, j) ==
    {o \in BagToSet(sent) :
        /\ o[1] <= i /\ i < o[1] + TILE_SIZE
        /\ o[2] <= j /\ j < o[2] + TILE_SIZE}

\* C1: once every worker has returned, each pixel of the image lies in the
\* clipped region of exactly one sent tile: no gap and no overlap.
C1_TileCoverage ==
    AllReturned =>
        \A i \in 0..(width - 1) : \A j \in 0..(height - 1) :
            /\ Cardinality(Covering(i, j)) = 1
            /\ \A o \in Covering(i, j) : CopiesIn(o, sent) = 1

\* C1 witness: two workers both rendered tiles of an image that has a clipped
\* last column and a clipped last row, and all have returned.
C1_Witness ==
    /\ AllReturned
    /\ nthreads = 2
    /\ width > TILE_SIZE /\ width % TILE_SIZE # 0
    /\ height > TILE_SIZE /\ height % TILE_SIZE # 0
    /\ total_pixels[1] > 0 /\ total_pixels[2] > 0

\* C2: once every worker has returned, the number of tiles sent is
\* ceil(W/16) * ceil(H/16) and every sent origin is a multiple of 16 in both
\* coordinates and lies inside the image.
C2_OneTilePerRegion ==
    AllReturned =>
        /\ BagCardinality(sent) =
               CeilDiv(width, TILE_SIZE) * CeilDiv(height, TILE_SIZE)
        /\ \A o \in BagToSet(sent) :
               /\ o[1] % TILE_SIZE = 0 /\ o[2] % TILE_SIZE = 0
               /\ o[1] < width /\ o[2] < height

\* C3: no two claims take the same cursor value as their tile origin.
C3_NoOriginTwice ==
    \A a, b \in 1..Len(claims) : a # b => claims[a] # claims[b]

\* C3 witness: two workers hold a claimed tile each at the same time.
C3_Witness ==
    /\ nthreads = 2
    /\ pc[1] = "render" /\ pc[2] = "render"
    /\ previous_coords[1] # previous_coords[2]

\* C4: in the order of the lock acquisitions the k-th origin handed out is
\* the k-th tile in row-major order.
C4_RowMajorClaims ==
    LET tw == CeilDiv(width, TILE_SIZE) IN
    \A k \in 1..Len(claims) :
        claims[k] = <<TILE_SIZE * ((k - 1) % tw), TILE_SIZE * ((k - 1) \div tw)>>

\* C4 witness: a later claim is already sent while the first claimed tile is
\* still being rendered, in an image more than one tile wide and high.
C4_Witness ==
    /\ width > TILE_SIZE /\ height > TILE_SIZE
    /\ Len(claims) >= 3
    /\ \E t \in Workers : pc[t] = "render" /\ previous_coords[t] = claims[1]
    /\ BagIn(claims[2], sent) /\ BagIn(claims[3], sent)

OriginOf(i, j) == <<TILE_SIZE * (i \div TILE_SIZE), TILE_SIZE * (j \div TILE_SIZE)>>

\* C6: pixel (i, j) of a received tile is at image[H-1-j][i] and the cells of
\* tiles not yet received are untouched, whatever the order of arrival.
C6_PlacedByOwnOrigin ==
    \A i \in 0..(width - 1) : \A j \in 0..(height - 1) :
        LET o == OriginOf(i, j) IN
        image[height - 1 - j][i] =
            IF BagIn(o, received)
            THEN TilePixel(sample_seed, o[1], o[2], i, j, width, height)
            ELSE ColorZero

\* C6 witness: the second tile claimed was received before the first.
C6_Witness ==
    /\ Len(claims) >= 2
    /\ BagIn(claims[2], received)
    /\ ~BagIn(claims[1], received)

\* the framebuffer as a function of the seed and the image size alone
ExpectedImage(seed, w, h) ==
    [row \in 0..(h - 1) |->
        [col \in 0..(w - 1) |->
            LET j == h - 1 - row
                o == OriginOf(col, j)
            IN  TilePixel(seed, o[1], o[2], col, j, w, h)]]

\* C7: the finished framebuffer is determined by the sample seed and the
\* image size: every schedule and every run ends with the same image.
C7_Deterministic ==
    collector = "done" => image = ExpectedImage(sample_seed, width, height)

\* C7 witness: a finished render, with a non-zero seed, of an image of four
\* tiles of which each of two workers rendered some.
C7_Witness ==
    /\ collector = "done"
    /\ sample_seed # 0
    /\ nthreads = 2
    /\ total_pixels[1] > 0 /\ total_pixels[2] > 0
    /\ BagCardinality(received) = 4

(***************************************************************************)
(* Properties of the bounding-volume hierarchy.                            *)
(***************************************************************************)
HasBox(prim) == PrimBox(prim, 0, 1).some

\* C8: for a world whose primitives all have boxes, the BVH answers a query
\* with a hit exactly when the linear scan does, and with the same t.
C8_BvhEqualsLinearScan ==
    query.asked =>
        /\ query.bvh_hit.some = query.list_hit.some
        /\ query.bvh_hit.some => query.bvh_hit.t = query.list_hit.t

\* C9: BvhNode::new fails exactly when some primitive of the list has no
\* bounding box, and then returns no tree.
C9_ErrIffNoBox ==
    bvh # NotBuilt =>
        /\ (bvh.state = "err") = (\E k \in 1..Len(scene) : ~HasBox(scene[k]))
        /\ bvh.state = "err" => bvh = [state |-> "err"]
        /\ bvh.state = "ok" => bvh.node.kind = "node"

\* C9 witness: the build of three primitives failed on the box-less last
\* one, the other two having boxes.
C9_Witness ==
    /\ bvh.state = "err"
    /\ Len(scene) = 3
    /\ HasBox(scene[1]) /\ HasBox(scene[2]) /\ ~HasBox(scene[3])

\* every node of the tree caches the surrounding box of its children
RECURSIVE NodesCacheUnion(_, _)
NodesCacheUnion(prims, child) ==
    child.kind = "node" =>
        /\ child.bbox = SurroundingBox(ChildBox(prims, child.left, 0, 1),
                                       ChildBox(prims, child.right, 0, 1))
        /\ NodesCacheUnion(prims, child.left)
        /\ NodesCacheUnion(prims, child.right)

BoxContains(outer, inner) ==
    \A a \in 1..3 : outer.min[a] <= inner.min[a] /\ inner.max[a] <= outer.max[a]

\* C10: in a built tree every node's bbox is the surrounding box of its two
\* children's boxes, and the root's bbox contains every primitive's box.
C10_NodeBoxIsUnion ==
    bvh.state = "ok" =>
        /\ NodesCacheUnion(scene, bvh.node)
        /\ \A k \in 1..Len(scene) :
              BoxContains(bvh.node.bbox, PrimBox(scene[k], 0, 1))

\* C10 witness: a tree over three primitives, one of them moving, whose
\* left child is a node of its own.
C10_Witness ==
    /\ bvh.state = "ok"
    /\ Len(scene) = 3
    /\ \E k \in 1..3 : scene[k].kind = "moving"
    /\ bvh.node.left.kind = "node"
    /\ bvh.node.bbox # bvh.node.left.bbox

\* a worker has its tile ready and cannot complete the send
BlockedInSend == \E t \in Workers : pc[t] = "render" /\ ~ENABLED RenderSend(t)

\* C18 as stated: a worker comes to wait in send for the collector.
C18_SendBlocksEventually == <>BlockedInSend

\* C18 amended: no worker ever waits in send; a worker with a finished tile
\* can always send it, however many tiles the collector has yet to receive.
C18_SendNeverBlocks == ~BlockedInSend

\* C18 witness: the collector lags by two tiles while a worker has a third
\* tile ready to send.
C18_Witness ==
    /\ Len(chan) >= 2
    /\ \E t \in Workers : pc[t] = "render"

\* the child of the tree at the end of a path from the root
RECURSIVE ChildAt(_, _)
ChildAt(child, path) ==
    IF path = <<>> THEN child
    ELSE ChildAt(IF Head(path) = "left" THEN child.left ELSE child.right,
                 Tail(path))

\* a call of hit on a node whose cached box the call's interval misses
MissedNodeCalls ==
    {c \in query.calls :
        /\ c.kind = "node"
        /\ ~AabbHitFrom(ChildAt(bvh.node, c.path).bbox, query.r, 1,
                        c.t_min, c.t_max).hit}

\* C11: a call of BvhNode::hit whose interval misses the node's cached box
\* makes no call of hit on either child, and the query that misses the root
\* box returns None and tests no primitive.
C11_PrunedNodeAsksNoChild ==
    query.asked =>
        /\ \A c \in MissedNodeCalls : \A d \in query.calls :
              /\ d.path # c.path \o <<"left">>
              /\ d.path # c.path \o <<"right">>
        /\ (\E c \in MissedNodeCalls : c.path = <<>>) =>
              /\ ~query.bvh_hit.some
              /\ query.calls = {HitCall(<<>>, bvh.node, query.t_min, query.t_max)}

\* C11 witness: the ray enters the root box of a tree over three primitives
\* and a primitive is tested, while the interval misses the box of an inner
\* node, which is pruned.
C11_Witness ==
    /\ query.asked
    /\ Len(scene) = 3
    /\ \E c \in MissedNodeCalls : c.path # <<>>
    /\ \E d \in query.calls : d.kind = "obj"

\* C16: a record returned by BvhNode::hit(r, t_min, t_max) has its t in
\* [t_min, t_max], also when it is the right child's record, found over the
\* interval narrowed to the left child's hit.
C16_HitInWindow ==
    (query.asked /\ query.bvh_hit.some) =>
        query.t_min <= query.bvh_hit.t /\ query.bvh_hit.t <= query.t_max

\* C16 witness: the left child was hit, the right child was asked over the
\* interval narrowed to that hit, and its closer hit is the one returned.
C16_Witness ==
    /\ query.asked
    /\ query.bvh_hit.some
    /\ \E c \in query.calls :
          /\ c.path = <<"right">>
          /\ c.t_max < query.t_max
          /\ query.bvh_hit.t < c.t_max

(***************************************************************************)
(* Properties of ray_color.                                                *)
(***************************************************************************)
\* C12: a call with depth <= 0 returns the zero color and never queries the
\* world; a call with depth d > 0 makes at most d world.hit queries and at
\* most d + 1 calls of ray_color, nested at most d + 1 deep, whatever the
\* world and the materials answer.
C12_DepthCap ==
    rcolor # Unused =>
        /\ rcolor.hits <= Max(rcolor.max_depth, 0)
        /\ rcolor.peak_depth <= Max(rcolor.max_depth, 0) + 1
        /\ Len(rcolor.stack) <= Max(rcolor.max_depth, 0) + 1
        /\ (rcolor.state = "done" /\ rcolor.max_depth <= 0) =>
              rcolor.result = 0 /\ rcolor.hits = 0

\* C12 witness: every material scattered; the call with the largest depth
\* ended after that many queries and one more call.
C12_Witness ==
    /\ rcolor # Unused
    /\ rcolor.state = "done"
    /\ rcolor.max_depth = MaxDepth
    /\ rcolor.hits = MaxDepth
    /\ rcolor.peak_depth = MaxDepth + 1
    /\ rcolor.closed = "exhausted"

\* the color of a path: the sum over its bounces of the emission times the
\* product of the attenuations before it, closed by the last color times
\* the product of all attenuations
RECURSIVE PathColor(_, _, _, _, _)
PathColor(path, k, product, sum, last) ==
    IF k > Len(path) THEN sum + product * last
    ELSE PathColor(path, k + 1,
                   IF path[k].kind = "scatter"
                   THEN product * path[k].attenuation ELSE product,
                   sum + product * path[k].emitted, last)

\* C13: for depth > 0 the result is the sum over the bounces of the path of
\* (product of the attenuations before the bounce) * (emission of the
\* bounce), closed by the background on a miss, by zero when the depth is
\* exhausted, and by nothing more when a material does not scatter.
C13_Composition ==
    (rcolor # Unused /\ rcolor.state = "done" /\ rcolor.max_depth > 0) =>
        rcolor.result =
            PathColor(rcolor.path, 1, 1, 0,
                      IF rcolor.closed = "miss" THEN rcolor.background ELSE 0)

\* C13 witness: two emitting, attenuating bounces and then a miss into a
\* lit background.
C13_Witness ==
    /\ rcolor # Unused
    /\ rcolor.state = "done"
    /\ rcolor.closed = "miss"
    /\ rcolor.background = 3
    /\ Len(rcolor.path) = 2
    /\ \A k \in 1..2 : rcolor.path[k].emitted = 1 /\ rcolor.path[k].attenuation = 2
    /\ rcolor.result = 1 + 2 * (1 + 2 * 3)

(***************************************************************************)
(* Properties of Aabb.                                                     *)
(***************************************************************************)
WellFormed(box) == \A a \in 1..3 : box.min[a] <= box.max[a]

Surrounded == aabb # Unused /\ aabb.op = "surrounding_box" /\ aabb.state = "returned"

\* C14: for boxes with min <= max on every axis the surrounding box has
\* min <= max on every axis, contains both boxes, takes each of its minima
\* and maxima from one of the two boxes, does not depend on the order of
\* the arguments and is the box itself when both arguments are the same.
C14_SurroundingBox ==
    Surrounded =>
        /\ WellFormed(aabb.ab)
        /\ BoxContains(aabb.ab, aabb.box0)
        /\ BoxContains(aabb.ab, aabb.box1)
        /\ \A a \in 1..3 :
              /\ aabb.ab.min[a] \in {aabb.box0.min[a], aabb.box1.min[a]}
              /\ aabb.ab.max[a] \in {aabb.box0.max[a], aabb.box1.max[a]}
        /\ aabb.ab = aabb.ba
        /\ aabb.aa = aabb.box0

\* C14 witness: two boxes neither of which contains the other, so that the
\* surrounding box is a third box.
C14_Witness ==
    /\ Surrounded
    /\ ~BoxContains(aabb.box0, aabb.box1)
    /\ ~BoxContains(aabb.box1, aabb.box0)
    /\ aabb.ab # aabb.box0 /\ aabb.ab # aabb.box1

\* entry and exit parameter of the ray on one axis of the box, from the
\* geometry: where origin + t * direction lies between the two faces
AxisEntry(box, r, a) ==
    IF r.dir[a] > 0 THEN box.min[a] - r.orig[a]
    ELSE IF r.dir[a] < 0 THEN r.orig[a] - box.max[a]
    ELSE IF box.min[a] <= r.orig[a] /\ r.orig[a] <= box.max[a] THEN NegInf
    ELSE PosInf

AxisExit(box, r, a) ==
    IF r.dir[a] > 0 THEN box.max[a] - r.orig[a]
    ELSE IF r.dir[a] < 0 THEN r.orig[a] - box.min[a]
    ELSE IF box.min[a] <= r.orig[a] /\ r.orig[a] <= box.max[a] THEN PosInf
    ELSE NegInf

\* the interval left of [t_min, t_max] after the three axes
Entry(box, r, t_min) ==
    Max(Max(t_min, AxisEntry(box, r, 1)),
        Max(AxisEntry(box, r, 2), AxisEntry(box, r, 3)))

Exit(box, r, t_max) ==
    Min(Min(t_max, AxisExit(box, r, 1)),
        Min(AxisExit(box, r, 2), AxisExit(box, r, 3)))

HitReturned == aabb # Unused /\ aabb.op = "hit" /\ aabb.state = "returned"

\* the example: box [(0,0,0),(1,1,1)], ray from (0.5,0.5,-5) along +z
Example ==
    /\ aabb.box = UnitBox
    /\ aabb.r.orig = <<1, 1, -5 * Half>>
    /\ aabb.r.dir = <<0, 0, 1>>
    /\ aabb.t_min = 0 /\ aabb.t_max = PosInf

\* the slab test answers true exactly when the interval left after the
\* three axes has t_max > t_min, and then that interval is what it holds
SlabTest ==
    HitReturned =>
        /\ aabb.res.hit =
              (Exit(aabb.box, aabb.r, aabb.t_max) > Entry(aabb.box, aabb.r, aabb.t_min))
        /\ aabb.res.hit =>
              /\ aabb.res.t_min = Entry(aabb.box, aabb.r, aabb.t_min)
              /\ aabb.res.t_max = Exit(aabb.box, aabb.r, aabb.t_max)
        /\ ~aabb.res.hit => aabb.res.t_max <= aabb.res.t_min

\* C15 as stated: the slab test, with the example entering at 4 and
\* leaving at 6.
C15_SlabTestEntryFour ==
    /\ SlabTest
    /\ (HitReturned /\ Example) =>
          /\ aabb.res.hit
          /\ aabb.res.t_min = 4 * Half
          /\ aabb.res.t_max = 6 * Half

\* C15 amended: the slab test, with the example entering at 5 and leaving
\* at 6.
C15_SlabTestEntryFive ==
    /\ SlabTest
    /\ (HitReturned /\ Example) =>
          /\ aabb.res.hit
          /\ aabb.res.t_min = 5 * Half
          /\ aabb.res.t_max = 6 * Half

\* C15 witness: the example ray has been tested against the example box.
C15_Witness == HitReturned /\ Example /\ aabb.res.hit

(***************************************************************************)
(* Properties of Camera::get_ray.                                          *)
(***************************************************************************)
\* C17: get_ray never panics, whatever the camera, a camera whose shutter
\* interval is one instant included, and the ray it returns has its time
\* in [time0, time1].
C17_GetRayNeverFails ==
    camera # Unused =>
        /\ camera.state # "panicked"
        /\ camera.state = "returned" =>
              camera.time0 <= camera.ray.tm /\ camera.ray.tm <= camera.time1

(***************************************************************************)
(* Properties of the PNG writers.                                          *)
(***************************************************************************)
\* the bytes cut into scanlines of size bytes, a filter byte before each
RECURSIVE Framed(_, _)
Framed(bytes, size) ==
    IF bytes = <<>> THEN <<>>
    ELSE <<FilterNone>> \o SubSeq(bytes, 1, Min(size, Len(bytes)))
         \o Framed(SubSeq(bytes, Min(size, Len(bytes)) + 1, Len(bytes)), size)

\* C19: however the bytes are split into write calls, what reaches the
\* underlying writer is the bytes accepted so far cut into scanlines of
\* scanline_size bytes, each preceded by exactly one filter byte 0, and
\* scanline_pos stays in [0, scanline_size).
C19_ScanlineFraming ==
    filter_writer # Unused =>
        /\ filter_writer.scanline_pos \in 0..(filter_writer.scanline_size - 1)
        /\ filter_writer.dest =
              Framed(SubSeq(filter_writer.data, 1, filter_writer.fed),
                     filter_writer.scanline_size)

\* the CRC-32 of PNG on a register of 32 bits, reg[i] worth 2^(i-1): each
\* byte is folded into the low bits, then the register is shifted eight
\* times, the polynomial folded in whenever a one is shifted out
BitOf(x, i) == (x \div (2 ^ i)) % 2
BitsOf(c) == [i \in 1..32 |-> BitOf(c[4 - ((i - 1) \div 8)], (i - 1) % 8)]
PolyBits == SubSeq(BitsOf(Crc32Poly), 1, 32)
OneBits == [i \in 1..32 |-> 1]
ByteOf(reg, k) ==
    reg[8 * k + 1] + 2 * reg[8 * k + 2] + 4 * reg[8 * k + 3]
    + 8 * reg[8 * k + 4] + 16 * reg[8 * k + 5] + 32 * reg[8 * k + 6]
    + 64 * reg[8 * k + 7] + 128 * reg[8 * k + 8]

FoldByte(reg, x) ==
    SubSeq([i \in 1..32 |-> IF i <= 8 THEN (reg[i] + BitOf(x, i - 1)) % 2
                            ELSE reg[i]], 1, 32)
FoldPoly(reg) == SubSeq([i \in 1..32 |-> (reg[i] + PolyBits[i]) % 2], 1, 32)
ShiftOut(reg) == Tail(reg) \o <<0>>

RECURSIVE ShiftBits(_, _)
ShiftBits(reg, k) ==
    IF k = 0 THEN reg
    ELSE IF reg[1] = 1 THEN ShiftBits(FoldPoly(ShiftOut(reg)), k - 1)
    ELSE ShiftBits(ShiftOut(reg), k - 1)

\* the checksum of the bytes from the k-th on, most significant byte first
RECURSIVE BitwiseCrc(_, _, _)
BitwiseCrc(reg, bytes, k) ==
    IF k > Len(bytes) \/ Len(reg) # 32
    THEN <<255 - ByteOf(reg, 3), 255 - ByteOf(reg, 2), 255 - ByteOf(reg, 1),
           255 - ByteOf(reg, 0)>>
    ELSE BitwiseCrc(ShiftBits(FoldByte(reg, bytes[k]), 8), bytes, k + 1)

\* the chunk of a buffer: length, tag, data, checksum of tag and data
IdatChunk(buf) ==
    ToBeBytes(Len(buf)) \o IdatTag \o buf
    \o BitwiseCrc(SubSeq(OneBits, 1, 32), IdatTag \o buf, 1)

RECURSIVE IdatChunks(_)
IdatChunks(bufs) ==
    IF bufs = <<>> THEN <<>> ELSE IdatChunk(Head(bufs)) \o IdatChunks(Tail(bufs))

\* C20: every write of n bytes adds exactly one chunk of n + 12 bytes, the
\* length n in four big-endian bytes, the tag IDAT, the n bytes unchanged
\* and the big-endian CRC-32 of the tag and the data alone, and reports n;
\* for the data of test_idat_writer the chunk begins 00 00 00 70 and its
\* checksum is 62 60 9a cd.
C20_IdatChunkFraming ==
    idat_writer # Unused =>
        /\ idat_writer.dest = IdatChunks(idat_writer.bufs)
        /\ idat_writer.bufs # <<>> =>
              idat_writer.ret = Len(idat_writer.bufs[Len(idat_writer.bufs)])
        /\ idat_writer.bufs = <<TestData>> =>
              /\ Len(idat_writer.dest) = 112 + 12
              /\ SubSeq(idat_writer.dest, 1, 8) = <<0, 0, 0, 112>> \o IdatTag
              /\ SubSeq(idat_writer.dest, 121, 124) = <<98, 96, 154, 205>>

\* C20 witness: two writes, the second of a non-empty buffer, have left two
\* chunks behind.
C20_Witness ==
    /\ idat_writer # Unused
    /\ Len(idat_writer.bufs) = 2
    /\ idat_writer.bufs[2] = <<1, 2, 3>>
    /\ Len(idat_writer.dest) = Len(idat_writer.bufs[1]) + 12 + 3 + 12

(***************************************************************************)
(* The late worker of render.                                              *)
(***************************************************************************)
\* worker t holds the cursor it found at (0, y_end), y_end >= H
LateWorker(t) ==
    /\ pc[t] = "crit"
    /\ previous_coords[t][1] = 0
    /\ previous_coords[t][2] >= height

\* C21: a worker that finds the cursor at (0, y_end) with y_end >= H leaves
\* its critical section by returning from render: it renders and sends no
\* tile and the cursor is (0, y_end) again, whatever the image width.
C21_LateWorkerReturns ==
    [][\A t \in Workers :
          LateWorker(t) /\ pc'[t] # "crit" =>
              /\ pc'[t] = "returned"
              /\ current_pos' = previous_coords[t]
              /\ chan' = chan /\ sent' = sent /\ claims' = claims
              /\ total_pixels'[t] = total_pixels[t]]_vars

(***************************************************************************)
(* Properties of the worker seen cell by cell.                             *)
(***************************************************************************)
\* every cell of the tile inside the image was stored once and holds the
\* color of its pixel; every cell outside was never stored and is zero
Complete(tile, seed, w, h) ==
    \A r, c \in 0..(TILE_SIZE - 1) :
        IF tile.x + c < w /\ tile.y + r < h
        THEN /\ tile.writes[r][c] = 1
             /\ tile.pixels[r][c] =
                   TilePixel(seed, tile.x, tile.y, tile.x + c, tile.y + r, w, h)
        ELSE /\ tile.writes[r][c] = 0
             /\ tile.pixels[r][c] = ColorZero

\* C22: the tile about to be sent is complete and clipped, every tile that
\* was sent is still as it was sent, and between a send and the next
\* Tile::new the worker holds no tile.
C22_TileCompleteWhenSent ==
    tile_loop # Unused =>
        /\ tile_loop.pc = "send" =>
              Complete(tile_loop.tile, tile_loop.seed, tile_loop.width,
                       tile_loop.height)
        /\ \A k \in 1..Len(tile_loop.out) :
              Complete(tile_loop.out[k], tile_loop.seed, tile_loop.width,
                       tile_loop.height)
        /\ tile_loop.pc \in {"claim", "returned"} => tile_loop.tile = Moved

\* C22 witness: the worker sent the clipped corner tile of an image of four
\* tiles after another tile, and has returned.
C22_Witness ==
    /\ tile_loop # Unused
    /\ tile_loop.pc = "returned"
    /\ tile_loop.width = TILE_SIZE + 1 /\ tile_loop.height = TILE_SIZE + 1
    /\ Len(tile_loop.out) >= 2
    /\ tile_loop.out[Len(tile_loop.out)].x = TILE_SIZE
    /\ tile_loop.out[Len(tile_loop.out)].y = TILE_SIZE

\* number of cells of the tile stored so far
Stored(tile) ==
    Cardinality({rc \in (0..(TILE_SIZE - 1)) \X (0..(TILE_SIZE - 1)) :
                    tile.writes[rc[1]][rc[2]] > 0})

\* C23: the generator of a tile is new at the claim, seeded with
\* sample_seed XOR x XOR y, and has drawn for the cells of this tile only;
\* two tiles of the image have the same seed exactly when x1 XOR y1 =
\* x2 XOR y2, a tile with x = y has sample_seed itself and the tiles (a, b)
\* and (b, a) have the same seed.
C23_PerTileSeed ==
    tile_loop # Unused =>
        /\ tile_loop.pc \in {"loop", "send"} =>
              /\ tile_loop.rng.seed =
                    BitXor(BitXor(tile_loop.seed, tile_loop.tile.x),
                           tile_loop.tile.y)
              /\ tile_loop.rng.seed =
                    tile_loop.seeded[Len(tile_loop.seeded)].seed
              /\ tile_loop.rng.n = Stored(tile_loop.tile)
        /\ \A k, l \in 1..Len(tile_loop.seeded) :
              LET a == tile_loop.seeded[k]
                  b == tile_loop.seeded[l]
              IN  /\ (a.seed = b.seed) <=> (BitXor(a.x, a.y) = BitXor(b.x, b.y))
                  /\ a.x = a.y => a.seed = tile_loop.seed
                  /\ (a.x = b.y /\ a.y = b.x) => a.seed = b.seed

\* C23 witness: one worker has seeded the four tiles of an image, the two
\* on the diagonal and the two mirrored ones, with a non-zero sample seed,
\* and is in the loops of the last one.
C23_Witness ==
    /\ tile_loop # Unused
    /\ tile_loop.seed # 0
    /\ Len(tile_loop.seeded) = 4
    /\ tile_loop.pc = "loop"
    /\ tile_loop.rng.n > 0

(***************************************************************************)
(* Independence from the number of workers.                                *)
(***************************************************************************)
\* the framebuffer of the run in which a single worker takes every tile:
\* its claims from the cursor pos on, each tile rendered and placed in turn
RECURSIVE OneWorkerRun(_, _, _, _, _)
OneWorkerPlaced(img, pos, a, seed, w, h) ==
    IF a.done THEN img ELSE OneWorkerRun(img, a.pos, seed, w, h)

OneWorkerClaim(img, pos, a, seed, w, h) ==
    IF a.ret THEN img
    ELSE OneWorkerPlaced(
             PlaceTile(img, RenderTile(WorkerSeed(seed, 1), pos[1], pos[2], w, h),
                       w, h),
             pos, a, seed, w, h)

OneWorkerRun(img, pos, seed, w, h) ==
    OneWorkerClaim(img, pos, AdvanceCursor(pos, w, h), seed, w, h)

OneWorkerImage(seed, w, h) ==
    OneWorkerRun([row \in 0..(h - 1) |-> [col \in 0..(w - 1) |-> ColorZero]],
                 <<0, 0>>, seed, w, h)

\* C24: whatever the number of workers and the interleaving, every tile in
\* the channel is the tile its origin and the sample seed determine, and
\* the finished framebuffer is the one a single worker produces.
C24_ThreadCountIndependent ==
    /\ \A k \in 1..Len(chan) :
          chan[k] = RenderTile(sample_seed, chan[k].x, chan[k].y, width, height)
    /\ collector = "done" =>
          image = OneWorkerImage(sample_seed, width, height)

\* C24 witness: a finished render of four tiles by two workers in which the
\* second worker rendered a full tile and the first worker some tile too.
C24_Witness ==
    /\ collector = "done"
    /\ nthreads = 2
    /\ BagCardinality(received) = 4
    /\ total_pixels[2] >= TILE_SIZE * TILE_SIZE
    /\ total_pixels[1] > 0

(***************************************************************************)
(* Pixel accounting.                                                       *)
(***************************************************************************)
\* sum of the pixel counts of the workers 1..n
RECURSIVE PixelsOfWorkers(_)
PixelsOfWorkers(n) ==
    IF n = 0 THEN 0 ELSE total_pixels[n] + PixelsOfWorkers(n - 1)

\* C25: pixels_so_far never exceeds W*H and is W*H when the collector loop
\* has ended; when every worker has returned the pixel counts they return
\* add up to W*H.
C25_PixelAccounting ==
    /\ pixels_so_far <= width * height
    /\ collector = "done" => pixels_so_far = width * height
    /\ AllReturned => PixelsOfWorkers(MaxThreads) = width * height

\* C25 witness: the collector loop ended on an image with clipped tiles in
\* which each of two workers has counted pixels.
C25_Witness ==
    /\ collector = "done"
    /\ width = TILE_SIZE + 1 /\ height = TILE_SIZE + 1
    /\ total_pixels[1] > 0 /\ total_pixels[2] > 0
    /\ pixels_so_far = width * height

(***************************************************************************)
(* Termination of BvhNode::new.                                            *)
(***************************************************************************)
\* C26: BvhNode::new never exhausts the stack, whatever the list, the empty
\* list included: every call in progress was made on a list strictly
\* shorter than the list of the call that made it, and a call that makes
\* calls has a list of three objects or more.
C26_BuildTerminates ==
    build # Unused =>
        /\ build.state # "overflow"
        /\ \A k \in 1..Len(build.stack) :
              /\ k > 1 => Len(build.stack[k].src_objects)
                              < Len(build.stack[k - 1].src_objects)
              /\ k < Len(build.stack) => Len(build.stack[k].src_objects) >= 3

(***************************************************************************)
(* The shape of the tree BvhNode::new builds.                              *)
(***************************************************************************)
\* the smallest e with 2^e >= n
RECURSIVE CeilLog2From(_, _)
CeilLog2From(n, e) == IF 2 ^ e >= n THEN e ELSE CeilLog2From(n, e + 1)
CeilLog2(n) == CeilLog2From(n, 0)

\* a bottom-level node: both children are objects of the world
BottomLevel(node) == node.left.kind = "obj" /\ node.right.kind = "obj"

\* the height of a tree of BvhNodes, a single node having height 0
RECURSIVE Height(_)
Height(child) ==
    IF child.kind = "obj" THEN 0
    ELSE IF BottomLevel(child) THEN 0
    ELSE 1 + Max(Height(child.left), Height(child.right))

\* every node is a bottom-level node or has two BvhNodes as children
RECURSIVE Shaped(_)
Shaped(node) ==
    \/ BottomLevel(node)
    \/ /\ node.left.kind = "node" /\ node.right.kind = "node"
       /\ Shaped(node.left) /\ Shaped(node.right)

\* the minimum on axis of the box box_compare takes of object k
BoxMin(prims, k, axis) == PrimBox(prims[k], 0, 0).min[axis + 1]

\* the frame of a call that has split its k >= 3 objects: they are its
\* src_objects in the order of the box minimum on the axis drawn, and the
\* call it waits for got the first floor(k/2) or the other k - floor(k/2)
SplitFrame(prims, frame, callee) ==
    LET k == Len(frame.src_objects)
        mid == k \div 2
    IN  /\ k >= 3
        /\ Len(frame.objects) = k
        /\ \A o \in 1..Len(prims) :
              Cardinality({p \in 1..k : frame.objects[p] = o})
                  = Cardinality({p \in 1..k : frame.src_objects[p] = o})
        /\ \A a \in 1..mid : \A b \in (mid + 1)..k :
              BoxMin(prims, frame.objects[a], frame.axis)
                  <= BoxMin(prims, frame.objects[b], frame.axis)
        /\ frame.pc = "left" =>
              callee.src_objects = SubSeq(frame.objects, 1, mid)
        /\ frame.pc = "right" =>
              /\ callee.src_objects = SubSeq(frame.objects, mid + 1, k)
              /\ Len(callee.src_objects) = k - mid

\* C27: while a successful build over n >= 1 primitives runs, every call
\* that has made a call sorted its k >= 3 objects by the box minimum on the
\* axis it drew and gave the first floor(k/2) to the left call and the
\* other k - floor(k/2) to the right call; in the tree returned every
\* bottom-level node holds 1 or 2 primitives, every other node has two
\* BvhNodes as children, and the height is at most ceil(log2 n).
C27_BalancedSplit ==
    (build # Unused /\ build.prims # <<>>) =>
        /\ build.state = "running" =>
              \A k \in 1..(Len(build.stack) - 1) :
                  SplitFrame(build.prims, build.stack[k], build.stack[k + 1])
        /\ (build.state = "returned" /\ build.result.ok) =>
              /\ Shaped(build.result.node)
              /\ Height(build.result.node) <= CeilLog2(Len(build.prims))

\* C27 witness: a build over three primitives, whose sort put another
\* object than the first one given in front, has returned a tree of height 1.
C27_Witness ==
    /\ build # Unused
    /\ build.state = "returned" /\ build.result.ok
    /\ Len(build.prims) = 3
    /\ Height(build.result.node) = 1
    /\ build.result.node.left.left.id # 1

(***************************************************************************)
(* What the built tree holds.                                              *)
(***************************************************************************)
\* number of bottom-level nodes under child that reference object o
RECURSIVE Holders(_, _)
Holders(child, o) ==
    IF child.kind = "obj" THEN 0
    ELSE IF BottomLevel(child)
    THEN IF child.left.id = o \/ child.right.id = o THEN 1 ELSE 0
    ELSE Holders(child.left, o) + Holders(child.right, o)

\* number of references to objects in the bottom-level nodes under child, a
\* node whose two children are one allocation counting for one
RECURSIVE Held(_)
Held(child) ==
    IF child.kind = "obj" THEN 0
    ELSE IF BottomLevel(child)
    THEN IF PtrEq(child.left, child.right) THEN 1 ELSE 2
    ELSE Held(child.left) + Held(child.right)

\* no node above the bottom level has one allocation as both children
RECURSIVE UpperUnaliased(_)
UpperUnaliased(child) ==
    \/ child.kind = "obj"
    \/ BottomLevel(child)
    \/ /\ ~PtrEq(child.left, child.right)
       /\ UpperUnaliased(child.left) /\ UpperUnaliased(child.right)

\* C28: in a tree built over n >= 1 primitives every primitive is held by
\* exactly one bottom-level node and the bottom-level nodes hold n
\* primitives in all, a node with left and right aliased holding one; no
\* other node has left and right aliased.
C28_NothingLostOrDuplicated ==
    bvh.state = "ok" =>
        /\ \A o \in 1..Len(scene) : Holders(bvh.node, o) = 1
        /\ Held(bvh.node) = Len(scene)
        /\ UpperUnaliased(bvh.node)

\* C28 witness: a tree over three primitives: a node holding one of them as
\* both children beside a node holding the two others.
C28_Witness ==
    /\ bvh.state = "ok"
    /\ Len(scene) = 3
    /\ PtrEq(bvh.node.left.left, bvh.node.left.right)
    /\ ~PtrEq(bvh.node.right.left, bvh.node.right.right)

(***************************************************************************)
(* The traversal step of BvhNode::hit.                                     *)
(***************************************************************************)
\* positions in the trace of the calls made on the child of the node at path
CallsOn(path, side) ==
    {l \in 1..Len(query.trace) : query.trace[l].path = path \o <<side>>}

\* the step of the call c on a node with left and right one object
AliasedStep(c) ==
    /\ Cardinality(CallsOn(c.path, "left")) = 1
    /\ CallsOn(c.path, "right") = {}
    /\ \A l \in CallsOn(c.path, "left") :
          /\ query.trace[l].t_min = c.t_min
          /\ query.trace[l].t_max = c.t_max
          /\ c.res = query.trace[l].res

\* the step of the call c on a node with two different children
TwoChildStep(c) ==
    /\ Cardinality(CallsOn(c.path, "left")) = 1
    /\ Cardinality(CallsOn(c.path, "right")) = 1
    /\ \A l \in CallsOn(c.path, "left") : \A q \in CallsOn(c.path, "right") :
          /\ l < q
          /\ query.trace[l].t_min = c.t_min
          /\ query.trace[l].t_max = c.t_max
          /\ query.trace[q].t_min = c.t_min
          /\ query.trace[q].t_max =
                IF query.trace[l].res.some THEN query.trace[l].res.t
                ELSE c.t_max
          /\ c.res = IF query.trace[q].res.some THEN query.trace[q].res
                     ELSE query.trace[l].res

\* C29: a call of BvhNode::hit whose interval meets the node's box asks
\* the one child once over [t_min, t_max] when left and right are the same
\* object; otherwise it asks the left child over [t_min, t_max], then the
\* right child over [t_min, t_hit] if the left child was hit at t_hit and
\* over [t_min, t_max] if not, and returns the right child's hit if there
\* is one, the left child's answer if not.
C29_TraversalStep ==
    query.asked =>
        \A k \in 1..Len(query.trace) :
            LET c == query.trace[k] IN
            (/\ c.kind = "node"
             /\ AabbHitFrom(ChildAt(bvh.node, c.path).bbox, query.r, 1,
                            c.t_min, c.t_max).hit) =>
                IF PtrEq(ChildAt(bvh.node, c.path).left,
                         ChildAt(bvh.node, c.path).right)
                THEN AliasedStep(c)
                ELSE TwoChildStep(c)

\* C29 witness: in a tree over three primitives the root asked both
\* children, both answered with a hit, and the left child, a node holding
\* one object, asked it once.
C29_Witness ==
    /\ query.asked
    /\ Len(scene) = 3
    /\ \E l \in CallsOn(<<>>, "left") : \E q \in CallsOn(<<>>, "right") :
          /\ query.trace[l].res.some
          /\ query.trace[q].res.some
          /\ query.trace[q].t_max = query.trace[l].res.t
    /\ PtrEq(bvh.node.left.left, bvh.node.left.right)
    /\ CallsOn(<<"left">>, "left") # {}

(***************************************************************************)
(* The earlier render loop.                                                *)
(***************************************************************************)
\* C30: once every worker of the earlier loop has returned, every origin
\* that left a critical section has been sent, and each pixel of the image
\* lies in the region of exactly one sent tile, sent once.
C30_OldLoopCoverage ==
    AllReturned =>
        /\ \A k \in 1..Len(claims) : CopiesIn(claims[k], sent) = 1
        /\ \A i \in 0..(width - 1) : \A j \in 0..(height - 1) :
              /\ Cardinality(Covering(i, j)) = 1
              /\ \A o \in Covering(i, j) : CopiesIn(o, sent) = 1

====
